---- MODULE Spec2Model ----
(***************************************************************************)
(* Runtime validation of query expressions (neo4j_ogm/queries/validators). *)
(*                                                                         *)
(* A Python value is a record [t, v]: t is the Python type and v the       *)
(* payload.  A mapping's payload is a function from its keys (strings) to  *)
(* values, a list's payload a sequence of values.  A float's payload is    *)
(* the number in tenths.  A pydantic model instance carries its class,     *)
(* its __dict__ (keyed by field NAME, extras by their raw key) and its     *)
(* __fields_set__.                                                         *)
(***************************************************************************)
EXTENDS Integers, Sequences, FiniteSets, TLC

VARIABLES raw, context, pc, result,
          entityRef, fragment, parameters, counter, bound,
          _driver, _session, _transaction, _using_batches, _version, _models,
          server_version, txns, blocks, lastCall,
          arg, parsed, config, listdir, stamp, created

\* The lowering state and the output of one lowering call.
lowerVars == <<entityRef, fragment, parameters, counter, bound>>

\* The client's fields, the server it talks to, the transactions the driver
\* has begun for it, the batching() blocks the caller is inside of, and the
\* outcome of the caller's last call.
clientVars ==
    <<_driver, _session, _transaction, _using_batches, _version, _models,
      server_version, txns, blocks, lastCall>>

\* The migration tooling: the argument given to parse_migration_count and
\* what came of it; the migration config found from the working directory,
\* the files of the migration directory (listdir, each with its content),
\* the stamp of the next migration
\* file and the outcome of the last create().
migrationVars == <<arg, parsed, config, listdir, stamp, created>>

vars == <<raw, context, pc, result, lowerVars, clientVars, migrationVars>>

None == [t |-> "none", v |-> "None"]
PyBool(b) == [t |-> "bool", v |-> b]
PyInt(n) == [t |-> "int", v |-> n]
PyFloat(tenths) == [t |-> "float", v |-> tenths]
PyStr(s) == [t |-> "str", v |-> s]
PyList(s) == [t |-> "list", v |-> s]
PyDict(f) == [t |-> "dict", v |-> f]
Mdl(cls, values, fields_set) ==
    [t |-> "model", v |-> [cls |-> cls, values |-> values, fields_set |-> fields_set]]

EmptyMap == [k \in {} |-> None]

Ok(x) == [ok |-> TRUE, val |-> x]
Fail == [ok |-> FALSE, val |-> None]

(***************************************************************************)
(* Type annotations of the fields.  Every field of every validator is      *)
(* Optional[...]; the descriptor is the type inside the Optional.          *)
(***************************************************************************)
TStr == [kind |-> "str"]
TInt == [kind |-> "int"]
TFloat == [kind |-> "float"]
TBool == [kind |-> "bool"]
TScalar == [kind |-> "scalar"]
TEnum == [kind |-> "enum"]
TConInt(gt) == [kind |-> "conint", gt |-> gt]
TList(ty) == [kind |-> "list", of |-> ty]
TUnion(a, b) == [kind |-> "union", a |-> a, b |-> b]
TModel(cls) == [kind |-> "model", cls |-> cls]

Field(name, alias, type, default) ==
    [name |-> name, alias |-> alias, type |-> type, default |-> default]

\* class PatternDirection(str, Enum)
PatternDirection == {"INCOMING", "OUTGOING", "BOTH"}

(***************************************************************************)
(* The validation models: one field table per class, in the order pydantic *)
(* keeps the fields (inherited fields first, bases taken in reverse).      *)
(***************************************************************************)
StringComparisonValidator ==
    << Field("contains_operator", "$contains", TStr, None),
       Field("starts_with_operator", "$startsWith", TStr, None),
       Field("ends_with_operator", "$endsWith", TStr, None),
       Field("regex_operator", "$regex", TStr, None) >>

ListComparisonValidator ==
    << Field("in_operator", "$in", TUnion(TList(TScalar), TScalar), None) >>

NumericComparisonValidator ==
    << Field("gt_operator", "$gt", TUnion(TInt, TFloat), None),
       Field("gte_operator", "$gte", TUnion(TInt, TFloat), None),
       Field("lt_operator", "$lt", TUnion(TInt, TFloat), None),
       Field("lte_operator", "$lte", TUnion(TInt, TFloat), None) >>

BaseComparisonValidator ==
    << Field("eq_operator", "$eq", TScalar, None),
       Field("ne_operator", "$ne", TScalar, None) >>

ComparisonValidator ==
    BaseComparisonValidator \o ListComparisonValidator
        \o StringComparisonValidator \o NumericComparisonValidator

LogicalOperand == TUnion(TModel("ExpressionValidator"), TModel("LogicalValidator"))

LogicalValidator ==
    << Field("and_operator", "$and", TList(LogicalOperand), None),
       Field("or_operator", "$or", TList(LogicalOperand), None),
       Field("xor_operator", "$xor", TList(LogicalOperand), None) >>

ElementValidator ==
    << Field("element_id_operator", "$elementId", TStr, None),
       Field("id_operator", "$id", TInt, None) >>

\* Mutant: $all typed like $size, over the comparison validators only.
ExpressionValidator_allRestricted ==
    ComparisonValidator \o LogicalValidator \o
    << Field("not_operator", "$not", TModel("ExpressionValidator"), None),
       Field("all_operator", "$all",
             TList(TUnion(TModel("NumericComparisonValidator"),
                          TModel("BaseComparisonValidator"))), None),
       Field("size_operator", "$size",
             TUnion(TModel("NumericComparisonValidator"),
                    TModel("BaseComparisonValidator")), None),
       Field("exists_operator", "$exists", TBool, None) >>

ExpressionValidator ==
    ComparisonValidator \o LogicalValidator \o
    << Field("not_operator", "$not", TModel("ExpressionValidator"), None),
       Field("all_operator", "$all", TList(TModel("ExpressionValidator")), None),
       Field("size_operator", "$size",
             TUnion(TModel("NumericComparisonValidator"),
                    TModel("BaseComparisonValidator")), None),
       Field("exists_operator", "$exists", TBool, None) >>

\* Mutant: $type declared on the node validator as well.
NodeValidator_withType ==
    ElementValidator \o
    << Field("labels_operator", "$labels", TList(TStr), None),
       Field("pattern_operator", "$pattern", TList(TModel("NodePatternValidator")), None),
       Field("type_operator", "$type", TStr, None) >>

NodeValidator ==
    ElementValidator \o
    << Field("labels_operator", "$labels", TList(TStr), None),
       Field("pattern_operator", "$pattern", TList(TModel("NodePatternValidator")), None) >>

\* Mutant: $hops constrained with ge=0 instead of gt=0.
RelationshipValidator_hopsGe0 ==
    ElementValidator \o
    << Field("type_operator", "$type", TStr, None),
       Field("hops_operator", "$hops", TConInt(-1), PyInt(1)) >>

RelationshipValidator ==
    ElementValidator \o
    << Field("type_operator", "$type", TStr, None),
       Field("hops_operator", "$hops", TConInt(0), PyInt(1)) >>

\* Mutant: $direction declared without its default.
NodePatternValidator_noDefault ==
    << Field("node_operator", "$node", TModel("NodeValidator"), None),
       Field("direction_operator", "$direction", TEnum, None),
       Field("relationship_operator", "$relationship", TModel("RelationshipValidator"), None) >>

NodePatternValidator ==
    << Field("node_operator", "$node", TModel("NodeValidator"), None),
       Field("direction_operator", "$direction", TEnum, PyStr("BOTH")),
       Field("relationship_operator", "$relationship", TModel("RelationshipValidator"), None) >>

\* cls.__fields__
Fields(cls) ==
    CASE cls = "StringComparisonValidator" -> StringComparisonValidator
      [] cls = "ListComparisonValidator" -> ListComparisonValidator
      [] cls = "NumericComparisonValidator" -> NumericComparisonValidator
      [] cls = "BaseComparisonValidator" -> BaseComparisonValidator
      [] cls = "ComparisonValidator" -> ComparisonValidator
      [] cls = "LogicalValidator" -> LogicalValidator
      [] cls = "ElementValidator" -> ElementValidator
      [] cls = "ExpressionValidator" -> ExpressionValidator
      [] cls = "NodeValidator" -> NodeValidator
      [] cls = "RelationshipValidator" -> RelationshipValidator
      [] cls = "NodePatternValidator" -> NodePatternValidator

\* Mutant: Extra.allow configured on every validation model.
ConfigExtra_allowEverywhere(cls) == "allow"

\* cls.Config.extra: Extra.allow where the class says so, pydantic's default
\* Extra.ignore elsewhere.
ConfigExtra(cls) ==
    IF cls \in {"NodeValidator", "RelationshipValidator"} THEN "allow" ELSE "ignore"

\* Whether the class registers _validate_properties as its root validator.
HasPropertyValidator(cls) == cls \in {"NodeValidator", "RelationshipValidator"}

(***************************************************************************)
(* pydantic's validators for the annotated types, as the fields use them.  *)
(***************************************************************************)
\* int(s) of the numeric strings among the modelled inputs.
IntOfStr == "7" :> 7 @@ "0" :> 0 @@ "1" :> 1

\* int(): truncation toward zero of a float given in tenths.
Trunc(tenths) == IF tenths >= 0 THEN tenths \div 10 ELSE -((-tenths) \div 10)

\* str() of a float given in tenths.
FloatRepr(tenths) ==
    LET a == IF tenths >= 0 THEN tenths ELSE -tenths
    IN (IF tenths < 0 THEN "-" ELSE "") \o ToString(a \div 10) \o "." \o ToString(a % 10)

\* int_validator: an int as it is, anything else through int().
int_validator(v) ==
    CASE v.t = "int" -> Ok(v)
      [] v.t = "bool" -> Ok(PyInt(IF v.v THEN 1 ELSE 0))
      [] v.t = "float" -> Ok(PyInt(Trunc(v.v)))
      [] v.t = "str" -> IF v.v \in DOMAIN IntOfStr THEN Ok(PyInt(IntOfStr[v.v])) ELSE Fail
      [] OTHER -> Fail

\* float_validator: a float as it is, anything else through float().
float_validator(v) ==
    CASE v.t = "float" -> Ok(v)
      [] v.t = "int" -> Ok(PyFloat(10 * v.v))
      [] v.t = "bool" -> Ok(PyFloat(IF v.v THEN 10 ELSE 0))
      [] v.t = "str" -> IF v.v \in DOMAIN IntOfStr THEN Ok(PyFloat(10 * IntOfStr[v.v])) ELSE Fail
      [] OTHER -> Fail

\* str_validator: a str as it is, a number through str().
str_validator(v) ==
    CASE v.t = "str" -> Ok(v)
      [] v.t = "int" -> Ok(PyStr(ToString(v.v)))
      [] v.t = "bool" -> Ok(PyStr(IF v.v THEN "True" ELSE "False"))
      [] v.t = "float" -> Ok(PyStr(FloatRepr(v.v)))
      [] OTHER -> Fail

\* bool_validator: a bool as it is, and the values pydantic reads as one.
bool_validator(v) ==
    CASE v.t = "bool" -> Ok(v)
      [] v.t = "int" -> IF v.v \in {0, 1} THEN Ok(PyBool(v.v = 1)) ELSE Fail
      [] v.t = "float" -> IF v.v \in {0, 10} THEN Ok(PyBool(v.v = 10)) ELSE Fail
      [] v.t = "str" ->
            IF v.v \in {"1", "on", "t", "true", "y", "yes"} THEN Ok(PyBool(TRUE))
            ELSE IF v.v \in {"0", "off", "f", "false", "n", "no"} THEN Ok(PyBool(FALSE))
            ELSE Fail
      [] OTHER -> Fail

\* enum_member_validator for PatternDirection: PatternDirection(v).
enum_member_validator(v) ==
    IF v.t = "str" /\ v.v \in PatternDirection THEN Ok(v) ELSE Fail

\* neo4j_ogm.queries.types.TAnyExcludeListDict: any value that is neither a
\* list nor a mapping, kept as it is.
TAnyExcludeListDict(v) ==
    IF v.t \in {"list", "dict", "model", "none"} THEN Fail ELSE Ok(v)

\* The characters of a two-character string among the modelled inputs.
Chars(s) == CASE s = "ab" -> <<"a", "b">> [] OTHER -> <<>>

\* Python's len() of a value that can be iterated, -1 of one that cannot.
IterLen(v) ==
    CASE v.t = "list" -> Len(v.v)
      [] v.t = "str" -> Len(v.v)
      [] v.t = "dict" -> Cardinality(DOMAIN v.v)
      [] v.t = "model" -> Cardinality(DOMAIN v.v.values)
      [] OTHER -> -1

\* A (key, value) pair read off an element of length two: a list's two
\* elements, a string's two characters.
PairOf(e) ==
    IF e.t = "list" THEN <<e.v[1], e.v[2]>>
    ELSE <<PyStr(Chars(e.v)[1]), PyStr(Chars(e.v)[2])>>

\* dict(obj), as parse_obj and Model.validate apply it to a value that is not
\* a mapping: obj must be an iterable of pairs (a later pair wins its key).
\* Among the modelled inputs the elements are lists, strings and scalars.
AsDict(v) ==
    CASE v.t = "dict" -> Ok(v.v)
      [] v.t = "model" -> Ok(v.v.values)
      [] v.t = "str" -> IF v.v = "" THEN Ok(EmptyMap) ELSE Fail
      [] v.t = "list" ->
            IF \A i \in DOMAIN v.v :
                  /\ v.v[i].t \in {"list", "str"}
                  /\ IterLen(v.v[i]) = 2
                  /\ PairOf(v.v[i])[1].t = "str"
            THEN LET key(i) == PairOf(v.v[i])[1].v
                     last(k) == CHOOSE i \in DOMAIN v.v :
                                   /\ key(i) = k
                                   /\ \A j \in DOMAIN v.v : key(j) = k => j <= i
                 IN Ok([k \in {key(i) : i \in DOMAIN v.v} |-> PairOf(v.v[last(k)])[2]])
            ELSE Fail
      [] OTHER -> Fail

(***************************************************************************)
(* pydantic's validate_model, Model.validate and .dict().                  *)
(***************************************************************************)
RECURSIVE ValidateType(_, _), ValidateModel(_, _), ModelValidate(_, _)
RECURSIVE DumpValue(_)

\* An Optional field: None passes as None, any other value goes to the type.
ValidateField(f, v) == IF v = None THEN Ok(None) ELSE ValidateType(f.type, v)

ValidateType(ty, v) ==
    CASE ty.kind = "str" -> str_validator(v)
      [] ty.kind = "int" -> int_validator(v)
      [] ty.kind = "conint" ->
            LET r == int_validator(v)
            IN IF r.ok /\ r.val.v > ty.gt THEN r ELSE Fail
      [] ty.kind = "float" -> float_validator(v)
      [] ty.kind = "bool" -> bool_validator(v)
      [] ty.kind = "scalar" -> TAnyExcludeListDict(v)
      [] ty.kind = "enum" -> enum_member_validator(v)
      [] ty.kind = "list" ->
            IF v.t # "list" THEN Fail
            ELSE LET outs == [i \in DOMAIN v.v |-> ValidateType(ty.of, v.v[i])]
                 IN IF \A i \in DOMAIN outs : outs[i].ok
                    THEN Ok(PyList([i \in DOMAIN outs |-> outs[i].val]))
                    ELSE Fail
      [] ty.kind = "union" ->
            \* Union[a, b]: the first member that validates wins
            LET r == ValidateType(ty.a, v)
            IN IF r.ok THEN r ELSE ValidateType(ty.b, v)
      [] ty.kind = "model" -> ModelValidate(ty.cls, v)

\* .dict(by_alias=True, exclude_none=True, exclude_unset=True) of a model
\* instance, as a function from keys to dumped values.
Dump(m) ==
    LET fs == Fields(m.v.cls)
        vals == m.v.values
        keep == {n \in DOMAIN vals : n \in m.v.fields_set /\ vals[n] # None}
        AliasOf(n) ==
            IF \E i \in DOMAIN fs : fs[i].name = n
            THEN fs[CHOOSE i \in DOMAIN fs : fs[i].name = n].alias
            ELSE n
        NameOf(a) == CHOOSE n \in keep : AliasOf(n) = a
    IN [a \in {AliasOf(n) : n \in keep} |-> DumpValue(vals[NameOf(a)])]

DumpValue(x) ==
    CASE x.t = "model" -> PyDict(Dump(x))
      [] x.t = "list" -> PyList([i \in DOMAIN x.v |-> DumpValue(x.v[i])])
      [] x.t = "dict" -> PyDict([k \in DOMAIN x.v |-> DumpValue(x.v[k])])
      [] OTHER -> x

\* The keys of the modelled inputs that start with "$".
OperatorKeys ==
    {"$eq", "$ne", "$in", "$contains", "$startsWith", "$endsWith", "$regex",
     "$gt", "$gte", "$lt", "$lte", "$and", "$or", "$xor", "$not", "$all",
     "$size", "$exists", "$elementId", "$id", "$labels", "$pattern", "$type",
     "$hops", "$node", "$direction", "$relationship", "$bogus"}

\* property_name.startswith("$")
StartsWithDollar(key) == key \in OperatorKeys

\* _validate_properties: every entry of values whose key does not start with
\* "$" is parsed as an ExpressionValidator and replaced by its dump; an entry
\* that does not parse is left as it is.
validate_properties(values) ==
    [k \in DOMAIN values |->
        IF StartsWithDollar(k) THEN values[k]
        ELSE LET validated == ModelValidate("ExpressionValidator", values[k])
             IN IF validated.ok THEN DumpValue(validated.val) ELSE values[k]]

\* validate_model(cls, input_data): the fields in order, then the extra keys
\* by Config.extra, then the root validator.  errors holds the aliases of the
\* fields that failed.
ValidateModel(cls, d) ==
    LET fs == Fields(cls)
        given(i) == fs[i].alias \in DOMAIN d
        out(i) == IF given(i) THEN ValidateField(fs[i], d[fs[i].alias])
                  ELSE Ok(fs[i].default)
        good == {i \in DOMAIN fs : out(i).ok}
        byName(n) == CHOOSE i \in good : fs[i].name = n
        fieldValues == [n \in {fs[i].name : i \in good} |-> out(byName(n)).val]
        names_used == {fs[i].alias : i \in {j \in DOMAIN fs : given(j)}}
        extra == IF ConfigExtra(cls) = "ignore" THEN {} ELSE DOMAIN d \ names_used
        withExtra == [k \in extra |-> d[k]] @@ fieldValues
        values == IF HasPropertyValidator(cls) THEN validate_properties(withExtra)
                  ELSE withExtra
    IN [ok |-> good = DOMAIN fs,
        values |-> values,
        fields_set |-> {fs[i].name : i \in {j \in DOMAIN fs : given(j)}} \cup extra,
        errors |-> {fs[i].alias : i \in DOMAIN fs \ good}]

\* Model.validate(value) and Model.parse_obj(value): the value as a mapping,
\* then cls(**mapping).
ModelValidate(cls, v) ==
    LET d == AsDict(v)
    IN IF ~d.ok THEN Fail
       ELSE LET r == ValidateModel(cls, d.val)
            IN IF r.ok THEN Ok(Mdl(cls, r.values, r.fields_set)) ELSE Fail

(***************************************************************************)
(* The expressions a caller may hand to the validators.                    *)
(***************************************************************************)
MaxOps == 2       \* operator entries in one comparison mapping
MaxList == 2      \* operands of a logical operator, of $all, of $pattern
MaxHops == 2      \* $hops ranges over -1 .. MaxHops
MaxTopKeys == 2   \* entries of a top-level expression built from samples

RECURSIVE Mappings(_, _, _)
\* The mappings of at most n entries with keys in keys, the value of key k
\* among samples[k].
Mappings(keys, samples, n) ==
    IF n = 0 THEN {EmptyMap}
    ELSE LET prev == Mappings(keys, samples, n - 1)
         IN prev \cup
            UNION { UNION { {(k :> x) @@ f : x \in samples[k]} : k \in keys \ DOMAIN f }
                    : f \in prev }

\* The lists of at most n elements of S.
Lists(S, n) == UNION { [1..m -> S] : m \in 0..n }

ComparisonKeys == {"$gt", "$gte", "$lt", "$lte", "$eq", "$ne"}
StringKeys == {"$contains", "$startsWith", "$endsWith", "$regex"}
LogicalKeys == {"$and", "$or", "$xor"}
ScalarKeys == ComparisonKeys \cup StringKeys \cup {"$in", "$exists", "$bogus", "$type"}

\* Values tried under each operator of a comparison mapping: well-shaped
\* ones and ill-shaped ones.
ScalarSamples ==
    [k \in ScalarKeys |->
        CASE k \in {"$gt", "$gte", "$lt", "$lte"} -> {PyInt(3), PyStr("abc"), PyFloat(15)}
          [] k \in {"$eq", "$ne"} -> {PyInt(3), PyStr("abc"), PyList(<<>>)}
          [] k \in StringKeys -> {PyStr("abc"), PyDict(EmptyMap)}
          [] k = "$in" -> {PyList(<<PyInt(3)>>), PyInt(3), PyDict(EmptyMap)}
          [] k = "$exists" -> {PyBool(TRUE), PyInt(3)}
          [] k \in {"$bogus", "$type"} -> {PyStr("x")}]

ScalarMappings == {PyDict(f) : f \in Mappings(ScalarKeys, ScalarSamples, MaxOps)}

\* Operands tried inside $and / $or / $xor / $all / $not.
Operands ==
    { PyDict("$gt" :> PyInt(3)),
      PyDict("$gt" :> PyStr("abc")),
      PyDict("$contains" :> PyStr("abc")),
      PyDict("$in" :> PyList(<<PyInt(3)>>)),
      PyDict("$exists" :> PyBool(TRUE)),
      PyDict("$bogus" :> PyStr("x") @@ "$lt" :> PyInt(3)),
      PyDict("$and" :> PyList(<<PyDict("$lt" :> PyInt(3))>>)),
      PyDict("$not" :> PyDict("$eq" :> PyInt(3))),
      PyDict("$all" :> PyList(<<PyDict("$gt" :> PyInt(3))>>)),
      PyDict("$size" :> PyDict("$gt" :> PyInt(3))),
      PyDict("$gt" :> PyStr("abc") @@ "$or" :> PyList(<<PyDict("$lt" :> PyInt(3))>>)),
      PyDict(EmptyMap),
      PyInt(3) }

OperandLists == {PyList(l) : l \in Lists(Operands, MaxList)}

SizeKeys == ComparisonKeys \cup {"$contains", "$bogus"}
SizeSamples ==
    [k \in SizeKeys |->
        CASE k \in {"$gt", "$gte", "$lt", "$lte"} -> {PyInt(3), PyStr("abc")}
          [] k \in {"$eq", "$ne"} -> {PyInt(3), PyList(<<>>)}
          [] OTHER -> {PyStr("x")}]
SizeMappings == {PyDict(f) : f \in Mappings(SizeKeys, SizeSamples, MaxOps)}

\* What a caller may give as the value of a property.
PropertyValues ==
    ScalarMappings
    \cup {PyDict(k :> l) : k \in LogicalKeys \cup {"$all"}, l \in OperandLists \cup {PyInt(3)}}
    \cup {PyDict("$not" :> o) : o \in Operands}
    \cup {PyDict("$size" :> m) : m \in SizeMappings \cup {PyInt(3)}}
    \cup {None, PyInt(3), PyStr(""), PyStr("abc"), PyList(<<>>),
          PyList(<<PyList(<<PyStr("$gt"), PyInt(3)>>)>>)}

HopValues == {PyInt(n) : n \in -1..MaxHops} \cup {PyStr("abc"), PyStr("7"), None}

TopKeys ==
    {"$elementId", "$id", "$labels", "$type", "$hops", "$bogus", "name", "age"}
        \cup LogicalKeys

\* Values tried under each key of a top-level expression.
TopSamples ==
    [k \in TopKeys |->
        CASE k = "$elementId" -> {PyStr("abc"), PyStr(""), PyInt(3), PyList(<<>>)}
          [] k = "$id" -> {PyInt(3), PyStr("7"), PyStr("abc")}
          [] k = "$labels" -> {PyList(<<PyStr("Person")>>), PyList(<<PyStr("ab")>>),
                               PyList(<<>>), PyStr("abc")}
          [] k = "$type" -> {PyStr("abc"), PyDict(EmptyMap)}
          [] k = "$hops" -> HopValues
          [] k = "$bogus" -> {PyStr("x")}
          [] k = "name" -> {PyDict("$eq" :> PyStr("abc")),
                            PyDict("$gt" :> PyStr("abc")),
                            PyDict("$bogus" :> PyStr("x") @@ "$eq" :> PyStr("abc"))}
          [] k = "age" -> {PyDict("$gt" :> PyInt(3))}
          [] k \in LogicalKeys ->
                {PyList(<<>>), PyInt(3),
                 PyList(<<PyDict("name" :> PyDict("$bogus" :> PyStr("x") @@ "$lt" :> PyInt(3)))>>),
                 PyList(<<PyDict("$bogus" :> PyStr("x") @@ "$lt" :> PyInt(3))>>)}]

TopExpressions == {PyDict(f) : f \in Mappings(TopKeys, TopSamples, MaxTopKeys)}

\* Pattern expressions: every combination of a $node, a $relationship and a
\* $direction entry, each present or absent.
NodeSamples ==
    { PyDict(EmptyMap),
      PyDict("name" :> PyDict("$eq" :> PyStr("abc"))),
      PyDict("$id" :> PyStr("abc")),
      PyDict("$hops" :> PyInt(0)) }
RelationshipSamples ==
    { PyDict("$hops" :> PyInt(0)),
      PyDict("$hops" :> PyInt(2)),
      PyDict("$type" :> PyStr("abc")) }
DirectionSamples ==
    {PyStr(d) : d \in PatternDirection} \cup {PyStr("SIDEWAYS"), PyInt(3), None}

PatternKeys == {"$node", "$relationship", "$direction"}
PatternSamples ==
    [k \in PatternKeys |->
        CASE k = "$node" -> NodeSamples
          [] k = "$relationship" -> RelationshipSamples
          [] k = "$direction" -> DirectionSamples]
PatternExpressions == {PyDict(f) : f \in Mappings(PatternKeys, PatternSamples, 3)}

PatternListSamples ==
    { PyDict(EmptyMap),
      PyDict("$direction" :> PyStr("OUTGOING")),
      PyDict("$direction" :> PyStr("SIDEWAYS")),
      PyDict("$relationship" :> PyDict("$hops" :> PyInt(2))) }

PatternValues ==
    {PyList(<<e>>) : e \in PatternExpressions}
    \cup {PyList(l) : l \in Lists(PatternListSamples, MaxList)}
    \cup {PyStr("abc")}

Expressions ==
    {PyDict("name" :> x) : x \in PropertyValues}
    \cup TopExpressions
    \cup {PyDict("$pattern" :> x) : x \in PatternValues}

Contexts == {"node", "relationship"}

(***************************************************************************)
(* The caller: an expression and a target entity kind, then one call of    *)
(* the context's validator.                                                *)
(***************************************************************************)
NoResult == [ok |-> FALSE, values |-> EmptyMap, fields_set |-> {}, errors |-> {}]

\* cls.parse_obj(obj): the validated model, or a ValidationError (ok FALSE,
\* with the aliases of the failing fields).
parse_obj(cls, obj) ==
    LET d == AsDict(obj)
    IN IF ~d.ok THEN [NoResult EXCEPT !.errors = {"__root__"}]
       ELSE LET r == ValidateModel(cls, d.val)
            IN IF r.ok THEN r ELSE [NoResult EXCEPT !.errors = r.errors]

\* The outcome of a call of the client: the operation, the exception it
\* raised ("none" when it returned), the driver calls it made in order, the
\* transaction its query ran on, what it returned, the exception it caught
\* and kept to itself, the models it was given, how the function wrapped by
\* initialize_models_after ended, the models registered at each invocation
\* of _initialize_models, the client fields it changed, and where the
\* caller stood (driver set, batching() blocks open, the block it left).
NoCall ==
    [op |-> "none", auto |-> FALSE, raised |-> "none", log |-> <<>>, ran_on |-> None,
     result |-> None, caught |-> "none", args |-> {}, wrapped |-> "none", init |-> <<>>,
     changed |-> {}, initialized |-> FALSE, depth |-> 0, block |-> None]

\* Pyneo4jClient.__init__: no driver, no session, no transaction, no models,
\* not batching.  _version is not set before connect (getattr gives None).
FreshClient ==
    /\ _driver = None
    /\ _session = None
    /\ _transaction = None
    /\ _using_batches = FALSE
    /\ _version = None
    /\ _models = {}
    /\ txns = <<>>
    /\ blocks = <<>>
    /\ lastCall = NoCall

\* The server version the validators' caller never asks for.
NoServer == server_version = <<"5", "18", "0">>

\* No create() made yet.
NoCreate ==
    [name |-> <<>>, config_path |-> "none", raised |-> "none", returned |-> <<>>,
     before |-> <<>>]

\* The migration tooling not in use.
NoMigrations ==
    /\ arg = <<>>
    /\ parsed = None
    /\ config = "none"
    /\ listdir = <<>>
    /\ stamp = 0
    /\ created = NoCreate

\* No lowering call made yet: a fresh lowering state and no output.
NotLowered ==
    /\ fragment = <<>>
    /\ parameters = EmptyMap
    /\ counter = 0
    /\ bound = <<>>

Init ==
    /\ raw \in Expressions
    /\ context \in Contexts
    /\ pc = "input"
    /\ result = NoResult
    /\ entityRef = "e"
    /\ NotLowered
    /\ FreshClient
    /\ NoServer
    /\ NoMigrations

ValidateNode ==
    /\ pc = "input"
    /\ context = "node"
    /\ result' = parse_obj("NodeValidator", raw)
    /\ pc' = "validated"
    /\ UNCHANGED <<raw, context, lowerVars, clientVars, migrationVars>>

ValidateRelationship ==
    /\ pc = "input"
    /\ context = "relationship"
    /\ result' = parse_obj("RelationshipValidator", raw)
    /\ pc' = "validated"
    /\ UNCHANGED <<raw, context, lowerVars, clientVars, migrationVars>>

Next == ValidateNode \/ ValidateRelationship

Spec == Init /\ [][Next]_vars

(***************************************************************************)
(* Properties of the validators.                                           *)
(***************************************************************************)
\* The operator keys a validation model recognizes: its fields' aliases.
Aliases(cls) == {Fields(cls)[i].alias : i \in DOMAIN Fields(cls)}

FieldOf(cls, alias) ==
    Fields(cls)[CHOOSE i \in DOMAIN Fields(cls) : Fields(cls)[i].alias = alias]

Validated == pc = "validated"

ContextValidator == IF context = "node" THEN "NodeValidator" ELSE "RelationshipValidator"

\* The property names of the expression being validated.
PropertyNames == {k \in DOMAIN raw.v : ~StartsWithDollar(k)}

\* A comparison mapping without the keys ExpressionValidator does not know.
KnownOnly(m) ==
    PyDict([k \in DOMAIN m.v \cap Aliases("ExpressionValidator") |-> m.v[k]])

\* The expression with property p's comparison mapping replaced by m.
WithProperty(p, m) == PyDict([raw.v EXCEPT ![p] = m])

\* A property whose mapping holds an unknown "$" key beside entries that all
\* validate.
HasDroppableKey(p) ==
    /\ raw.v[p].t = "dict"
    /\ DOMAIN raw.v[p].v \ Aliases("ExpressionValidator") # {}
    /\ ModelValidate("ExpressionValidator", KnownOnly(raw.v[p])).ok

\* C1: in node context, an unknown "$" key inside a property's comparison
\* mapping is dropped, not rejected: the outcome of validation (success, the
\* validated values, the set fields) is the outcome of validating the same
\* expression without the unknown keys, and an expression made of such a
\* property alone validates.
C1_UnknownKeysDropped ==
    (Validated /\ context = "node") =>
        \A p \in PropertyNames :
            HasDroppableKey(p) =>
                /\ result = parse_obj("NodeValidator", WithProperty(p, KnownOnly(raw.v[p])))
                /\ (DOMAIN raw.v = {p} => result.ok)
                /\ (result.ok =>
                      /\ result.values[p].t = "dict"
                      /\ DOMAIN result.values[p].v \subseteq DOMAIN KnownOnly(raw.v[p]).v
                      /\ \A k \in {"$eq", "$ne"} \cap DOMAIN raw.v[p].v :
                            result.values[p].v[k] = raw.v[p].v[k])

\* C1 witness: {"name": {"$bogus": "x", "$eq": "abc"}} validated in node
\* context to {"name": {"$eq": "abc"}}.
C1_Witness ==
    /\ Validated
    /\ context = "node"
    /\ raw = PyDict("name" :> PyDict("$bogus" :> PyStr("x") @@ "$eq" :> PyStr("abc")))
    /\ result.ok
    /\ result.values["name"] = PyDict("$eq" :> PyStr("abc"))

\* C3: in relationship context an integer $hops <= 0 fails validation with an
\* error on $hops; an integer $hops >= 1 raises no error on $hops, validates
\* when it is the only key, and is kept as the hop count on success.
C3_HopsPositive ==
    (Validated /\ context = "relationship" /\ "$hops" \in DOMAIN raw.v
        /\ raw.v["$hops"].t = "int") =>
        LET n == raw.v["$hops"].v
        IN /\ (n <= 0 => ~result.ok /\ "$hops" \in result.errors)
           /\ (n >= 1 =>
                 /\ "$hops" \notin result.errors
                 /\ (DOMAIN raw.v = {"$hops"} => result.ok)
                 /\ (result.ok => result.values["hops_operator"] = PyInt(n)))

\* C3 witness: $hops = 2 accepted and kept beside another valid key.
C3_Witness ==
    /\ Validated
    /\ context = "relationship"
    /\ "$hops" \in DOMAIN raw.v
    /\ raw.v["$hops"] = PyInt(2)
    /\ result.ok
    /\ result.values["hops_operator"] = PyInt(2)

\* A logical operator with a zero-length operand list, at top level or
\* directly inside a property's comparison mapping.
HasEmptyLogical ==
    \/ \E k \in LogicalKeys \cap DOMAIN raw.v : raw.v[k] = PyList(<<>>)
    \/ \E p \in PropertyNames :
          /\ raw.v[p].t = "dict"
          /\ \E k \in LogicalKeys \cap DOMAIN raw.v[p].v : raw.v[p].v[k] = PyList(<<>>)

\* C2: validating a node-context expression in which $and, $or or $xor is
\* given a zero-length operand sequence fails; it never validates.
C2_EmptyLogicalOperandRejected ==
    (Validated /\ context = "node" /\ HasEmptyLogical) => ~result.ok

\* A comparison mapping in which a recognized operator has a value that
\* violates the operator's shape or type.
IllShaped(m) ==
    /\ m.t = "dict"
    /\ \E k \in DOMAIN m.v \cap Aliases("ExpressionValidator") :
          ~ValidateField(FieldOf("ExpressionValidator", k), m.v[k]).ok

\* C4: a recognized operator whose value violates its shape or type, under
\* any property of a node or relationship expression, makes validation fail;
\* validation of the enclosing expression never succeeds over it.
C4_ShapeErrorsSurfaced ==
    (Validated /\ \E p \in PropertyNames : IllShaped(raw.v[p])) => ~result.ok

\* The operator keys that belong to the other context only.
WrongContextKeys == IF context = "node" THEN {"$type", "$hops"} ELSE {"$labels"}

\* The expression without key k.
Without(k) == PyDict([j \in DOMAIN raw.v \ {k} |-> raw.v[j]])

\* C5: an operator key not valid for the context ($type or $hops in node
\* context, $labels in relationship context) is dropped without aborting
\* validation: the expression validates whenever the rest of it does, and
\* the validated result does not contain the key.
C5_WrongContextKeyDropped ==
    Validated =>
        \A k \in WrongContextKeys \cap DOMAIN raw.v :
            parse_obj(ContextValidator, Without(k)).ok =>
                (result.ok /\ k \notin DOMAIN result.values)

\* The pattern expressions under $pattern, when they are a non-empty list of
\* mappings.
HasPatterns ==
    /\ "$pattern" \in DOMAIN raw.v
    /\ raw.v["$pattern"].t = "list"
    /\ raw.v["$pattern"].v # <<>>
    /\ \A i \in DOMAIN raw.v["$pattern"].v : raw.v["$pattern"].v[i].t = "dict"

Patterns == raw.v["$pattern"].v

\* No pattern gives $direction as an explicit None.
NoNullDirection ==
    \A i \in DOMAIN Patterns :
        "$direction" \in DOMAIN Patterns[i].v => Patterns[i].v["$direction"] # None

\* A supplied $direction that is neither one of the enum values nor None.
BadDirection(e) ==
    /\ "$direction" \in DOMAIN e.v
    /\ e.v["$direction"] # None
    /\ ~(e.v["$direction"].t = "str" /\ e.v["$direction"].v \in PatternDirection)

\* The direction_operator of the i-th validated pattern.
ValidatedDirection(i) ==
    result.values["pattern_operator"].v[i].v.values["direction_operator"]

\* C6 (amended): for every pattern expression under $pattern the validated
\* $direction is BOTH when $direction is absent and the supplied value when
\* it is INCOMING, OUTGOING, BOTH or None; a supplied $direction that is
\* anything else makes validation fail with an error on $pattern.
C6_DirectionDefaultOrRejected ==
    (Validated /\ context = "node" /\ HasPatterns) =>
        /\ (\E i \in DOMAIN Patterns : BadDirection(Patterns[i])) =>
              (~result.ok /\ "$pattern" \in result.errors)
        /\ result.ok =>
              \A i \in DOMAIN Patterns :
                  ValidatedDirection(i) =
                      IF "$direction" \in DOMAIN Patterns[i].v
                      THEN Patterns[i].v["$direction"]
                      ELSE PyStr("BOTH")

\* C6 witness: a pattern with $direction "SIDEWAYS" refused.
C6_Witness ==
    /\ Validated
    /\ context = "node"
    /\ raw = PyDict("$pattern" :> PyList(<<PyDict("$direction" :> PyStr("SIDEWAYS"))>>))
    /\ ~result.ok
    /\ result.errors = {"$pattern"}

\* The expression with the $direction entries of its patterns removed.
WithoutDirections ==
    PyDict([raw.v EXCEPT !["$pattern"] =
        PyList([i \in DOMAIN Patterns |->
            PyDict([k \in DOMAIN Patterns[i].v \ {"$direction"} |-> Patterns[i].v[k]])])])

\* C6 (as claimed): the validated $direction is BOTH when $direction is
\* absent and also when the supplied one is not INCOMING, OUTGOING or BOTH;
\* an invalid direction never makes validation fail, and the validated
\* direction is always one of the three enum values.
C6_InvalidDirectionBecomesBoth ==
    (Validated /\ context = "node" /\ HasPatterns /\ NoNullDirection
        /\ parse_obj("NodeValidator", WithoutDirections).ok) =>
        /\ result.ok
        /\ \A i \in DOMAIN Patterns :
              /\ ValidatedDirection(i).v \in PatternDirection
              /\ ("$direction" \notin DOMAIN Patterns[i].v \/ BadDirection(Patterns[i]))
                    => ValidatedDirection(i) = PyStr("BOTH")

\* C7: a top-level $and, $or or $xor of a node-context expression must be a
\* sequence whose elements are validated as node-context expressions: a
\* non-sequence is rejected, and every operand comes out as its own
\* top-level validation would leave it (unknown operators pruned).
C7_TopLevelLogicalValidated ==
    (Validated /\ context = "node") =>
        \A k \in LogicalKeys \cap DOMAIN raw.v :
            /\ raw.v[k].t # "list" => ~result.ok
            /\ (result.ok /\ raw.v[k].t = "list") =>
                  \A i \in DOMAIN raw.v[k].v :
                      LET r == parse_obj("NodeValidator", raw.v[k].v[i])
                      IN /\ r.ok
                         /\ DumpValue(result.values[k].v[i])
                              = DumpValue(Mdl("NodeValidator", r.values, r.fields_set))

\* A property whose comparison mapping is a lone $size over a mapping whose
\* comparison operators all carry integers.
LoneSize(p) ==
    /\ raw.v[p].t = "dict"
    /\ DOMAIN raw.v[p].v = {"$size"}
    /\ raw.v[p].v["$size"].t = "dict"
    /\ \A k \in DOMAIN raw.v[p].v["$size"].v \cap ComparisonKeys :
          raw.v[p].v["$size"].v[k].t = "int"

\* C8: under $size each of $gt, $gte, $lt, $lte, $eq and $ne is kept, with
\* its value, in the validated expression, and every other key is dropped.
C8_SizeKeepsComparisons ==
    Validated =>
        \A p \in PropertyNames :
            LoneSize(p) =>
                /\ result.ok
                /\ result.values[p] =
                      PyDict("$size" :>
                          PyDict([k \in DOMAIN raw.v[p].v["$size"].v \cap ComparisonKeys
                                    |-> raw.v[p].v["$size"].v[k]]))

\* A property whose comparison mapping validates and holds a list under $all.
HasAll(p) ==
    /\ raw.v[p].t = "dict"
    /\ "$all" \in DOMAIN raw.v[p].v
    /\ raw.v[p].v["$all"].t = "list"
    /\ ModelValidate("ExpressionValidator", raw.v[p]).ok

\* C9 (amended): when a property's mapping validates, each operand of its
\* $all is validated against the full property-comparison grammar: every
\* operator ExpressionValidator recognizes (logical, string, membership,
\* $not, $exists, nested $all / $size as well as the comparisons) survives
\* into the validated operand, and only unrecognized keys are dropped.
C9_AllOperandsFullGrammar ==
    (Validated /\ result.ok) =>
        \A p \in PropertyNames :
            HasAll(p) =>
                LET ops == raw.v[p].v["$all"].v
                    out == result.values[p].v["$all"].v
                IN /\ Len(out) = Len(ops)
                   /\ \A i \in DOMAIN ops :
                         ops[i].t = "dict" =>
                            DOMAIN out[i].v =
                               {k \in DOMAIN ops[i].v \cap Aliases("ExpressionValidator") :
                                   ops[i].v[k] # None}

\* C9 witness: {"name": {"$all": [{"$contains": "abc"}]}} validated with the
\* $contains of the operand kept.
C9_Witness ==
    /\ Validated
    /\ raw = PyDict("name" :> PyDict("$all" :> PyList(<<PyDict("$contains" :> PyStr("abc"))>>)))
    /\ result.ok
    /\ result.values["name"].v["$all"].v[1] = PyDict("$contains" :> PyStr("abc"))

\* C9 (as claimed): the operands of $all are validated against the
\* restricted sub-grammar only: no operator other than the numeric and
\* general comparisons survives inside a validated $all operand.
C9_AllOperandsRestricted ==
    (Validated /\ result.ok) =>
        \A p \in PropertyNames :
            HasAll(p) =>
                \A i \in DOMAIN result.values[p].v["$all"].v :
                    DOMAIN result.values[p].v["$all"].v[i].v \subseteq ComparisonKeys

\* No alias is given to two fields of a validation model.
UniqueAliases(cls) ==
    \A i, j \in DOMAIN Fields(cls) :
        Fields(cls)[i].alias = Fields(cls)[j].alias => i = j

\* The outcome of validating the same expression in the other context.
OtherResult ==
    parse_obj(IF context = "node" THEN "RelationshipValidator" ELSE "NodeValidator", raw)

\* A top-level "$" key is consumed as an operator when it does not come out
\* of validation as an extra entry under its own key.
Consumed(r, k) == k \notin DOMAIN r.values

\* C10 (amended): operator keys are unique within each context, and the two
\* contexts recognize the same operators except that $labels and $pattern
\* are node-only and $type and $hops are relationship-only: no other "$" key
\* is consumed as an operator in one context and not in the other.
C10_ContextOperatorSets ==
    /\ UniqueAliases("NodeValidator")
    /\ UniqueAliases("RelationshipValidator")
    /\ UniqueAliases("ExpressionValidator")
    /\ Aliases("NodeValidator") \ Aliases("RelationshipValidator") = {"$labels", "$pattern"}
    /\ Aliases("RelationshipValidator") \ Aliases("NodeValidator") = {"$type", "$hops"}
    /\ (Validated /\ result.ok /\ OtherResult.ok) =>
          \A k \in DOMAIN raw.v :
              (StartsWithDollar(k) /\ Consumed(result, k) # Consumed(OtherResult, k))
                  => k \in {"$labels", "$pattern", "$type", "$hops"}

\* C10 witness: an expression with $pattern that validates in both contexts,
\* consumed as an operator in node context only.
C10_Witness ==
    /\ Validated
    /\ context = "node"
    /\ "$pattern" \in DOMAIN raw.v
    /\ result.ok
    /\ OtherResult.ok
    /\ Consumed(result, "$pattern")
    /\ ~Consumed(OtherResult, "$pattern")

\* C10 (as claimed): the two contexts differ only in $labels (node-only) and
\* $type and $hops (relationship-only); every other "$" key is consumed as an
\* operator in both contexts or in neither.
C10_OnlyLabelsTypeHopsDiffer ==
    (Validated /\ result.ok /\ OtherResult.ok) =>
        \A k \in DOMAIN raw.v \ {"$labels", "$type", "$hops"} :
            StartsWithDollar(k) => Consumed(result, k) = Consumed(OtherResult, k)

\* C11: after successful validation of a node or relationship expression,
\* every property key of the result maps to the normalized mapping of its
\* value, holding only operator keys the property-comparison grammar
\* recognizes; no raw, unvalidated property value survives.
C11_PropertiesNormalized ==
    (Validated /\ result.ok) =>
        \A p \in PropertyNames :
            /\ ModelValidate("ExpressionValidator", raw.v[p]).ok
            /\ result.values[p].t = "dict"
            /\ DOMAIN result.values[p].v \subseteq Aliases("ExpressionValidator")

(***************************************************************************)
(* The operator templates and the lowering of a validated expression to a  *)
(* Cypher fragment and a parameter mapping.                                *)
(***************************************************************************)
\* Field(..., extra={"parser": ...}) of the comparison and element
\* operators: each template cut into its literal text, its placeholders and
\* the "$" sign.
Parser ==
    "$contains" :> <<"{property_name}", " CONTAINS ", "$", "{value}">>
    @@ "$startsWith" :> <<"{property_name}", " STARTS WITH ", "$", "{value}">>
    @@ "$endsWith" :> <<"{property_name}", " ENDS WITH ", "$", "{value}">>
    @@ "$regex" :> <<"{property_name}", " =~ ", "$", "{value}">>
    @@ "$in" :> <<"{property_name}", " IN ", "{value}">>
    @@ "$gt" :> <<"{property_name}", " > ", "$", "{value}">>
    @@ "$gte" :> <<"{property_name}", " >= ", "$", "{value}">>
    @@ "$lt" :> <<"{property_name}", " < ", "$", "{value}">>
    @@ "$lte" :> <<"{property_name}", " <= ", "$", "{value}">>
    @@ "$eq" :> <<"{property_name}", " = ", "$", "{value}">>
    @@ "$ne" :> <<"NOT(", "{property_name}", " = ", "$", "{value}", ")">>
    @@ "$elementId" :> <<"elementId(", "{ref}", ") = ", "$", "{value}">>
    @@ "$id" :> <<"ID(", "{ref}", ") = ", "$", "{value}">>

\* Mutant: every logical operator joined with AND.
LogicalParser_allAnd == "$and" :> "AND" @@ "$or" :> "AND" @@ "$xor" :> "AND"

\* Field(alias="$and", extra={"parser": "AND"}) and its two siblings.
LogicalParser == "$and" :> "AND" @@ "$or" :> "OR" @@ "$xor" :> "XOR"

ElementKeys == {"$elementId", "$id"}

\* The order in which a validated mapping yields its keys: the element
\* fields, then the fields of ExpressionValidator in field order, then the
\* property names.
KeyOrder ==
    <<"$elementId", "$id">>
        \o [i \in DOMAIN ExpressionValidator |-> ExpressionValidator[i].alias]
        \o <<"age", "name">>

KeysOf(m) == SelectSeq(KeyOrder, LAMBDA k : k \in DOMAIN m)

\* A fresh lowering state: the parameter counter, the parameter mapping and
\* the values bound so far, in the order they were bound.
NewLoweringState == [counter |-> 0, parameters |-> EmptyMap, bound |-> <<>>]

\* Mutant: the parameter name allocated without advancing the counter.
Allocate_noIncrement(st, v) ==
    [counter |-> st.counter,
     parameters |-> ("param_" \o ToString(st.counter) :> v) @@ st.parameters,
     bound |-> Append(st.bound, v)]

\* param_N with N the counter, post-incremented; the value stored under it.
Allocate(st, v) ==
    [counter |-> st.counter + 1,
     parameters |-> ("param_" \o ToString(st.counter) :> v) @@ st.parameters,
     bound |-> Append(st.bound, v)]

\* An operator's template with {property_name} / {ref} and {value} filled in.
Render(template, ref, name) ==
    [i \in DOMAIN template |->
        CASE template[i] \in {"{property_name}", "{ref}"} -> ref
          [] template[i] = "{value}" -> name
          [] OTHER -> template[i]]

RECURSIVE Join(_, _)
\* The fragments that are not empty, joined with a separator.
Join(parts, sep) ==
    IF parts = <<>> THEN <<>>
    ELSE LET rest == Join(Tail(parts), sep)
         IN IF Head(parts) = <<>> THEN rest
            ELSE IF rest = <<>> THEN Head(parts)
            ELSE Head(parts) \o <<sep>> \o rest

RECURSIVE Text(_)
\* The fragment as one string.
Text(tokens) == IF tokens = <<>> THEN "" ELSE Head(tokens) \o Text(Tail(tokens))

\* The parameter name the next bound value gets.
ParamName(st) == "param_" \o ToString(st.counter)

RECURSIVE lower(_, _, _, _), lowerOperands(_, _, _, _)

\* One entry of a validated mapping.  At the "expression" level the keys are
\* element operators, logical operators and property names; at the
\* "comparison" level, under a property, they are the comparison operators,
\* the logical operators and $not.  ref is the entity reference, or the
\* property path entityRef.prop under a property.
lowerEntry(level, k, v, ref, st) ==
    CASE (level = "comparison" /\ k \in DOMAIN Parser \ ElementKeys)
           \/ (level = "expression" /\ k \in ElementKeys) ->
            [fragment |-> Render(Parser[k], ref, ParamName(st)), st |-> Allocate(st, v)]
      [] k \in DOMAIN LogicalParser /\ v.t = "list" ->
            LET r == lowerOperands(level, v.v, ref, st)
                joined == Join(r.parts, " " \o LogicalParser[k] \o " ")
            IN [fragment |-> IF joined = <<>> THEN <<>> ELSE <<"(">> \o joined \o <<")">>,
                st |-> r.st]
      [] k = "$not" /\ v.t = "dict" ->
            LET r == lower(level, v.v, ref, st)
            IN [fragment |-> <<"NOT(">> \o r.fragment \o <<")">>, st |-> r.st]
      [] level = "expression" /\ ~StartsWithDollar(k) /\ v.t = "dict" ->
            lower("comparison", v.v, ref \o "." \o k, st)
      [] OTHER -> [fragment |-> <<>>, st |-> st]

RECURSIVE lowerEntries(_, _, _, _, _)
\* The entries of mapping m under the keys ks, in order, each lowered with
\* the state the one before it left.
lowerEntries(level, ks, m, ref, st) ==
    IF ks = <<>> THEN [parts |-> <<>>, st |-> st]
    ELSE LET first == lowerEntry(level, Head(ks), m[Head(ks)], ref, st)
             rest == lowerEntries(level, Tail(ks), m, ref, first.st)
         IN [parts |-> <<first.fragment>> \o rest.parts, st |-> rest.st]

\* The operands of a logical operator, in order.
lowerOperands(level, ops, ref, st) ==
    IF ops = <<>> THEN [parts |-> <<>>, st |-> st]
    ELSE LET first == IF Head(ops).t = "dict" THEN lower(level, Head(ops).v, ref, st)
                      ELSE [fragment |-> <<>>, st |-> st]
             rest == lowerOperands(level, Tail(ops), ref, first.st)
         IN [parts |-> <<first.fragment>> \o rest.parts, st |-> rest.st]

\* lower(node, entityRef): the entries of a mapping joined with AND (the
\* implicit conjunction); a mapping with nothing to lower is the empty node,
\* the literal TRUE.
lower(level, m, ref, st) ==
    LET r == lowerEntries(level, KeysOf(m), m, ref, st)
        joined == Join(r.parts, " AND ")
    IN [fragment |-> IF joined = <<>> THEN <<"TRUE">> ELSE joined, st |-> r.st]

\* The validated expression as the lowerer reads it: keyed by operator.
ValidatedTree == Dump(Mdl(ContextValidator, result.values, result.fields_set))

(***************************************************************************)
(* The caller of the whole pipeline: validate, then lower.                 *)
(***************************************************************************)
LowerValues ==
    {PyInt(18), PyInt(65), PyFloat(15), PyStr("abc"), PyStr("7"), PyBool(TRUE)}

NumericKeys == {"$gt", "$gte", "$lt", "$lte"}
PropertyKeys == {"age", "name"}
EntityRefs == {"e", "n"}

\* {p: {op: v}} for every operator that has a template.
SingleComparisons ==
    {PyDict(p :> PyDict(op :> v)) :
        p \in PropertyKeys, op \in DOMAIN Parser \ ElementKeys,
        v \in LowerValues \cup {PyList(<<PyInt(3)>>)}}

\* Several numeric comparisons on one property.
NumericSamples == [k \in NumericKeys |-> {PyInt(18), PyFloat(15)}]
NumericMappings == {PyDict(f) : f \in Mappings(NumericKeys, NumericSamples, MaxOps)}

\* Operands of a top-level logical operator.
ExpressionOperands ==
    {PyDict("age" :> PyDict(op :> v)) :
        op \in {"$lt", "$gte"}, v \in {PyInt(18), PyInt(65), PyFloat(15)}}
    \cup {PyDict("name" :> PyDict("$eq" :> PyStr("abc"))), PyDict(EmptyMap)}

\* Operands of a logical operator under a property.
ComparisonOperands ==
    {PyDict("$lt" :> PyInt(18)), PyDict("$gte" :> PyInt(65)), PyDict("$gt" :> PyFloat(15))}

LowerExpressions ==
    SingleComparisons
    \cup {PyDict("age" :> m) : m \in NumericMappings}
    \cup {PyDict(k :> PyList(l)) : k \in LogicalKeys, l \in Lists(ExpressionOperands, MaxList)}
    \cup {PyDict("age" :> PyDict(k :> PyList(l))) :
            k \in LogicalKeys, l \in Lists(ComparisonOperands, MaxList)}
    \cup { PyDict("age" :> PyDict("$not" :> PyDict("$gt" :> PyInt(18)))),
           PyDict("$elementId" :> PyStr("abc")),
           PyDict("$id" :> PyInt(3)),
           PyDict("$id" :> PyInt(3) @@ "age" :> PyDict("$gt" :> PyInt(18))),
           PyDict("$elementId" :> PyStr("abc") @@ "$id" :> PyInt(3)),
           PyDict("age" :> PyDict("$gt" :> PyInt(18))
                  @@ "name" :> PyDict("$eq" :> PyStr("abc"))),
           PyDict("age" :> PyInt(3)),
           PyDict(EmptyMap) }

LowerInit ==
    /\ raw \in LowerExpressions
    /\ context \in Contexts
    /\ pc = "input"
    /\ result = NoResult
    /\ entityRef \in EntityRefs
    /\ NotLowered
    /\ FreshClient
    /\ NoServer
    /\ NoMigrations

\* lower(validated, entityRef) on a fresh lowering state.
Lower ==
    /\ pc = "validated"
    /\ result.ok
    /\ LET out == lower("expression", ValidatedTree, entityRef, NewLoweringState)
       IN /\ fragment' = out.fragment
          /\ parameters' = out.st.parameters
          /\ counter' = out.st.counter
          /\ bound' = out.st.bound
    /\ pc' = "lowered"
    /\ UNCHANGED <<raw, context, result, entityRef, clientVars, migrationVars>>

LowerNext == ValidateNode \/ ValidateRelationship \/ Lower

LowerSpec == LowerInit /\ [][LowerNext]_vars

Lowered == pc = "lowered"

(***************************************************************************)
(* Properties of the templates and of the lowering.                        *)
(***************************************************************************)
\* C12: every parameter name in value position of the emitted fragment is
\* written with the "$" prefix and is bound in the parameter mapping; the
\* fragment of no operator, $in included, holds a bare parameter name.
C12_ValuesThroughDollarParameters ==
    Lowered =>
        \A i \in DOMAIN fragment :
            fragment[i] \in {"param_" \o ToString(n) : n \in 0..counter} =>
                /\ fragment[i] \in DOMAIN parameters
                /\ i > 1
                /\ fragment[i - 1] = "$"

\* The comparison symbol the claim gives each numeric operator.
NumericSymbol == "$gt" :> ">" @@ "$gte" :> ">=" @@ "$lt" :> "<" @@ "$lte" :> "<="

\* m is {p: {op: v}} with op a numeric comparison and v a number.
IsNumericComparison(m, p, op) ==
    /\ m.t = "dict"
    /\ DOMAIN m.v = {p}
    /\ m.v[p].t = "dict"
    /\ DOMAIN m.v[p].v = {op}
    /\ op \in NumericKeys
    /\ m.v[p].v[op].t \in {"int", "float"}

\* C13: for every property p, numeric comparison op and number v,
\* validating {p: {op: v}} in node context and lowering it with entity
\* reference e gives the fragment "e.p <sym> $param_0" and the parameter
\* mapping exactly {param_0: v}.
C13_NumericComparisonLowered ==
    (Lowered /\ context = "node") =>
        \A p \in PropertyKeys, op \in NumericKeys :
            IsNumericComparison(raw, p, op) =>
                /\ Text(fragment) =
                      entityRef \o "." \o p \o " " \o NumericSymbol[op] \o " $param_0"
                /\ parameters = ("param_0" :> raw.v[p].v[op])

\* The keyword the claim gives each logical operator.
LogicalKeyword == "$and" :> "AND" @@ "$or" :> "OR" @@ "$xor" :> "XOR"

\* The expression is {k: [operands]} with one or more operands, each a
\* numeric comparison {p: {op: v}}.
IsLogicalOfComparisons(k) ==
    /\ DOMAIN raw.v = {k}
    /\ raw.v[k].t = "list"
    /\ raw.v[k].v # <<>>
    /\ \A i \in DOMAIN raw.v[k].v :
          \E p \in PropertyKeys, op \in NumericKeys : IsNumericComparison(raw.v[k].v[i], p, op)

\* The fragment the claim expects of the i-th operand: e.p <sym> $param_(i-1).
ExpectedOperand(k, i) ==
    LET m == raw.v[k].v[i]
        p == CHOOSE q \in PropertyKeys : q \in DOMAIN m.v
        op == CHOOSE o \in NumericKeys : o \in DOMAIN m.v[p].v
    IN entityRef \o "." \o p \o " " \o NumericSymbol[op] \o " $param_" \o ToString(i - 1)

\* The value of the i-th operand.
OperandValue(k, i) ==
    LET m == raw.v[k].v[i]
        p == CHOOSE q \in PropertyKeys : q \in DOMAIN m.v
        op == CHOOSE o \in NumericKeys : o \in DOMAIN m.v[p].v
    IN m.v[p].v[op]

\* C14: a top-level $and / $or / $xor of numeric comparisons, in node
\* context, lowers to the operands' fragments joined by the operator's
\* keyword inside one pair of parentheses, with the parameters numbered in
\* operand order and each bound to its operand's value.
C14_TopLevelLogicalLowered ==
    (Lowered /\ context = "node") =>
        \A k \in LogicalKeys :
            IsLogicalOfComparisons(k) =>
                LET n == Len(raw.v[k].v)
                IN /\ Text(fragment) =
                        "(" \o Text(Join([i \in 1..n |-> <<ExpectedOperand(k, i)>>],
                                         " " \o LogicalKeyword[k] \o " ")) \o ")"
                   /\ DOMAIN parameters = {"param_" \o ToString(i - 1) : i \in 1..n}
                   /\ \A i \in 1..n :
                         parameters["param_" \o ToString(i - 1)] = OperandValue(k, i)

\* C14 witness: {"$or": [{"age": {"$lt": 18}}, {"age": {"$gte": 65}}]}
\* lowered with entity reference e.
C14_Witness ==
    /\ Lowered
    /\ context = "node"
    /\ entityRef = "e"
    /\ raw = PyDict("$or" :> PyList(<< PyDict("age" :> PyDict("$lt" :> PyInt(18))),
                                       PyDict("age" :> PyDict("$gte" :> PyInt(65))) >>))
    /\ Text(fragment) = "(e.age < $param_0 OR e.age >= $param_1)"
    /\ parameters = ("param_0" :> PyInt(18) @@ "param_1" :> PyInt(65))

\* C15: one lowering call binds every value under a name of its own: the
\* names are param_0, param_1, ... in the order the values were bound, the
\* counter ends at the number of values bound, the parameter mapping has
\* one entry per bound value, and each name occurs once in the fragment.
C15_ParameterNamesUnique ==
    Lowered =>
        /\ counter = Len(bound)
        /\ Cardinality(DOMAIN parameters) = Len(bound)
        /\ \A i \in DOMAIN bound : parameters["param_" \o ToString(i - 1)] = bound[i]
        /\ \A name \in DOMAIN parameters :
              Cardinality({i \in DOMAIN fragment : fragment[i] = name}) = 1

\* C15 witness: two different values bound in one call, under param_0 and
\* param_1.
C15_Witness ==
    /\ Lowered
    /\ counter = 2
    /\ bound[1] # bound[2]
    /\ parameters = ("param_0" :> bound[1] @@ "param_1" :> bound[2])

(***************************************************************************)
(* The client (pyneo4j_ogm.core.client, Neo4jClient) and the driver it     *)
(* calls.  A handler is an operator from the client before the call to the *)
(* client after it: the fields, the statuses of the transactions begun so  *)
(* far, the driver calls made (log), the exception raised (exc) and the    *)
(* transaction the query ran on.  fails is the set of driver calls that    *)
(* raise if the handler makes them.                                        *)
(***************************************************************************)
Driver == [t |-> "driver", v |-> "AsyncDriver"]
Session(n) == [t |-> "session", v |-> n]
Transaction(n) == [t |-> "transaction", v |-> n]
\* The session _with_auto_committing_transaction acquires for one query.
OwnSession == [t |-> "session", v |-> 0]

\* The client as the call finds it.
Self ==
    [driver |-> _driver, session |-> _session, transaction |-> _transaction,
     using_batches |-> _using_batches, version |-> _version, models |-> _models,
     txns |-> txns, log |-> <<>>, exc |-> "none", ran_on |-> None, result |-> None,
     caught |-> "none", args |-> {}, wrapped |-> "none", init |-> <<>>]

Raise(c, e) == [c EXCEPT !.exc = e]
Caught(c) == [c EXCEPT !.exc = "none"]
Called(c, call) == [c EXCEPT !.log = Append(@, call)]

\* Mutant: a decorator that lets every call through.
ensure_initialized_noCheck(c) == TRUE

\* ensure_initialized: getattr(self, "_driver", None) is not None.
ensure_initialized(c) == c.driver # None

\* A call on a transaction the driver no longer holds open raises.
IsOpen(c, n) == c.txns[n] = "open"

\* Mutant: a transaction begun whatever the client holds.
_begin_transaction_noInProgressCheck(c, fails) ==
    IF ~ensure_initialized(c) THEN Raise(c, "ClientNotInitializedError")
    ELSE LET c1 == Called(c, "driver.session")
         IN IF "driver.session" \in fails THEN Raise(c1, "DriverError")
            ELSE LET n == Len(c.txns) + 1
                     c2 == Called([c1 EXCEPT !.session = Session(n)],
                                  "session.begin_transaction")
                 IN IF "session.begin_transaction" \in fails THEN Raise(c2, "DriverError")
                    ELSE [c2 EXCEPT !.transaction = Transaction(n),
                                    !.txns = Append(@, "open")]

\* _begin_transaction
_begin_transaction(c, fails) ==
    IF ~ensure_initialized(c) THEN Raise(c, "ClientNotInitializedError")
    ELSE IF c.session # None \/ c.transaction # None THEN Raise(c, "TransactionInProgress")
    ELSE LET c1 == Called(c, "driver.session")
         IN IF "driver.session" \in fails THEN Raise(c1, "DriverError")
            ELSE LET n == Len(c.txns) + 1
                     c2 == Called([c1 EXCEPT !.session = Session(n)],
                                  "session.begin_transaction")
                 IN IF "session.begin_transaction" \in fails THEN Raise(c2, "DriverError")
                    ELSE [c2 EXCEPT !.transaction = Transaction(n),
                                    !.txns = Append(@, "open")]

\* Mutant: the session closed before the transaction is ended.
EndTransaction_closeFirst(c, fails, call, status) ==
    IF ~ensure_initialized(c) THEN Raise(c, "ClientNotInitializedError")
    ELSE IF c.session = None \/ c.transaction = None
         THEN Raise(c, "NoTransactionInProgress")
    ELSE LET n == c.transaction.v
             c1 == Called(c, "session.close")
         IN IF "session.close" \in fails THEN Raise(c1, "DriverError")
            ELSE LET c2 == Called([c1 EXCEPT !.session = None], call)
                 IN IF call \in fails \/ ~IsOpen(c, n) THEN Raise(c2, "DriverError")
                    ELSE [c2 EXCEPT !.txns[n] = status, !.transaction = None]

\* The end of a transaction, by commit or by rollback: the driver call on
\* the transaction, _transaction = None, the session closed, _session = None.
EndTransaction(c, fails, call, status) ==
    IF ~ensure_initialized(c) THEN Raise(c, "ClientNotInitializedError")
    ELSE IF c.session = None \/ c.transaction = None
         THEN Raise(c, "NoTransactionInProgress")
    ELSE LET n == c.transaction.v
             c1 == Called(c, call)
         IN IF call \in fails \/ ~IsOpen(c, n)
            THEN Raise([c1 EXCEPT !.txns[n] = IF IsOpen(c, n) /\ status = "committed"
                                              THEN "failed" ELSE @],
                       "DriverError")
            ELSE LET c2 == Called([c1 EXCEPT !.txns[n] = status, !.transaction = None],
                                  "session.close")
                 IN IF "session.close" \in fails THEN Raise(c2, "DriverError")
                    ELSE [c2 EXCEPT !.session = None]

\* _commit_transaction
_commit_transaction(c, fails) ==
    EndTransaction(c, fails, "transaction.commit", "committed")

\* _rollback_transaction
_rollback_transaction(c, fails) ==
    EndTransaction(c, fails, "transaction.rollback", "rolled_back")

\* An except branch that rolls back and re-raises: the exception the caller
\* sees is the one of the rollback when the rollback raises itself.
RollbackAndReraise(c, fails) ==
    LET rb == _rollback_transaction(Caught(c), fails)
    IN IF rb.exc # "none" THEN rb ELSE Raise(rb, c.exc)

\* _with_implicit_transaction
_with_implicit_transaction(c, fails) ==
    LET begun == IF ~c.using_batches THEN _begin_transaction(c, fails) ELSE c
        tried ==
            IF begun.transaction = None THEN Raise(begun, "AttributeError")
            ELSE LET n == begun.transaction.v
                     c1 == Called(begun, "transaction.run")
                 IN IF "transaction.run" \in fails \/ ~IsOpen(begun, n)
                    THEN Raise(c1, "DriverError")
                    ELSE LET c2 == [c1 EXCEPT !.ran_on = Transaction(n)]
                         IN IF ~c2.using_batches THEN _commit_transaction(c2, fails)
                            ELSE c2
    IN IF begun.exc # "none" THEN begun
       ELSE IF tried.exc = "none" THEN tried
       ELSE IF ~tried.using_batches THEN RollbackAndReraise(tried, fails)
       ELSE tried

\* _with_auto_committing_transaction
_with_auto_committing_transaction(c, fails) ==
    LET c1 == Called(c, "driver.session")
        c2 == Called(c1, "session.run")
        c3 == Called([c2 EXCEPT !.ran_on = OwnSession], "own session.close")
    IN IF "driver.session" \in fails THEN Raise(c1, "DriverError")
       ELSE IF "session.run" \in fails THEN Raise(c2, "DriverError")
       ELSE IF "own session.close" \in fails THEN Raise(c3, "DriverError")
       ELSE c3

\* Mutant: an auto-committing query sent to the current transaction.
cypher_autoOnTransaction(c, auto_committing, fails) ==
    IF ~ensure_initialized(c) THEN Raise(c, "ClientNotInitializedError")
    ELSE _with_implicit_transaction(c, fails)

\* cypher
cypher(c, auto_committing, fails) ==
    IF ~ensure_initialized(c) THEN Raise(c, "ClientNotInitializedError")
    ELSE IF auto_committing THEN _with_auto_committing_transaction(c, fails)
    ELSE _with_implicit_transaction(c, fails)

\* close
close(c, fails) ==
    IF ~ensure_initialized(c) THEN Raise(c, "ClientNotInitializedError")
    ELSE LET c1 == Called(c, "driver.close")
         IN IF "driver.close" \in fails THEN Raise(c1, "DriverError")
            ELSE [c1 EXCEPT !.driver = None]

\* Mutant: connected() without its try / except.
connected_noExcept(c, fails) ==
    IF c.driver = None THEN [c EXCEPT !.result = PyBool(FALSE)]
    ELSE LET c1 == Called(c, "driver.verify_connectivity")
         IN IF "driver.verify_connectivity" \in fails THEN Raise(c1, "DriverError")
            ELSE [c1 EXCEPT !.result = PyBool(TRUE)]

\* connected
connected(c, fails) ==
    IF c.driver = None THEN [c EXCEPT !.result = PyBool(FALSE)]
    ELSE LET c1 == Called(c, "driver.verify_connectivity")
         IN IF "driver.verify_connectivity" \in fails
            THEN [c1 EXCEPT !.result = PyBool(FALSE), !.caught = "DriverError"]
            ELSE [c1 EXCEPT !.result = PyBool(TRUE)]

\* The version as the client keeps it: server_info.agent.split("/")[1],
\* held here by its parts.
VersionOf(agent_version) == [t |-> "str", v |-> agent_version]

\* int(semver_partial) of the version parts the modelled servers report.
SemverInt ==
    "0" :> 0 @@ "4" :> 4 @@ "5" :> 5 @@ "6" :> 6 @@ "9" :> 9 @@ "17" :> 17
    @@ "18" :> 18 @@ "19" :> 19

\* Neo4jClient._check_database_version, called by connect on the new driver.
_check_database_version(c, fails, agent_version) ==
    LET c1 == Called(c, "driver.get_server_info")
    IN IF "driver.get_server_info" \in fails THEN Raise(c1, "DriverError")
       ELSE LET c2 == [c1 EXCEPT !.version = VersionOf(agent_version)]
            IN IF SemverInt[agent_version[1]] < 5
               THEN Raise(c2, "UnsupportedDatabaseVersionError")
               ELSE c2

\* Neo4jClient._initialize_models: ensure_initialized and an empty body.
\* The invocation is kept with the models registered when it is made.
_initialize_models(c) ==
    IF ~ensure_initialized(c) THEN Raise(c, "ClientNotInitializedError")
    ELSE [Called(c, "_initialize_models") EXCEPT !.init = Append(@, c.models)]

\* The function wrapped by initialize_models_after has returned or raised.
Wrapped(r) == [r EXCEPT !.wrapped = IF r.exc = "none" THEN "returned" ELSE "raised"]

\* initialize_models_after of core/client.py: what its wrapper does before
\* it awaits the wrapped function, whose result it returns.
initialize_models_after(c) ==
    IF c.driver # None THEN _initialize_models(c) ELSE c

\* The body of connect.
wrapped_connect(c, fails, agent_version) ==
    LET c1 == Called([c EXCEPT !.driver = Driver], "driver.verify_connectivity")
    IN IF "driver.verify_connectivity" \in fails THEN Raise(c1, "DriverError")
       ELSE _check_database_version(c1, fails, agent_version)

\* connect
connect(c, fails, agent_version) ==
    LET c1 == initialize_models_after(c)
    IN IF c1.exc # "none" THEN c1
       ELSE Wrapped(wrapped_connect(c1, fails, agent_version))

\* The body of register_models.
wrapped_register_models(c, models) ==
    [c EXCEPT !.models = @ \cup models, !.args = models]

\* register_models
register_models(c, models) ==
    LET c1 == initialize_models_after(c)
    IN IF c1.exc # "none" THEN c1
       ELSE Wrapped(wrapped_register_models(c1, models))

\* drop_nodes and the index / constraint creators of Neo4jClient: one
\* query through cypher().
GuardedQuery(c, fails) ==
    IF ~ensure_initialized(c) THEN Raise(c, "ClientNotInitializedError")
    ELSE cypher(c, FALSE, fails)

\* The test of ensure_neo4j_version: the version is refused.
VersionRefused(version, major_version, minor_version, patch_version) ==
    \/ SemverInt[version.v[1]] < major_version
    \/ SemverInt[version.v[2]] < minor_version
    \/ SemverInt[version.v[3]] < patch_version

\* vector_index: ensure_initialized, then ensure_neo4j_version(5, 18, 0),
\* then one query through cypher().
vector_index(c, fails) ==
    IF ~ensure_initialized(c) THEN Raise(c, "ClientNotInitializedError")
    ELSE IF c.version = None THEN Raise(c, "ClientNotInitializedError")
    ELSE IF VersionRefused(c.version, 5, 18, 0)
         THEN Raise(c, "UnsupportedDatabaseVersionError")
    ELSE cypher(c, FALSE, fails)

\* batching(), up to its yield: the block is entered when no exception is
\* raised.
batching_enter(c, fails) ==
    LET begun == _begin_transaction([c EXCEPT !.using_batches = TRUE], fails)
    IN IF begun.exc = "none" THEN begun
       ELSE [RollbackAndReraise(begun, fails) EXCEPT !.using_batches = FALSE]

\* batching(), after its yield, when the body has ended without exception.
batching_exit(c, fails) ==
    LET committed == _commit_transaction(c, fails)
    IN [(IF committed.exc = "none" THEN committed
         ELSE RollbackAndReraise(committed, fails)) EXCEPT !.using_batches = FALSE]

\* The exceptions that derive from Exception.
IsException(e) == e # "CancelledError"

\* batching(), when the body raises e at the yield: except Exception rolls
\* back and re-raises, finally clears the flag.
batching_raise(c, fails, e) ==
    [(IF IsException(e) THEN RollbackAndReraise(Raise(c, e), fails)
      ELSE Raise(c, e)) EXCEPT !.using_batches = FALSE]

(***************************************************************************)
(* The caller of the client: one coroutine that makes one call after the   *)
(* other, some of them inside batching() blocks.                           *)
(***************************************************************************)
MaxTxns == 2      \* transactions the driver begins for the client
MaxDepth == 2     \* batching() blocks the caller is inside of at once

ClientFields ==
    {"_driver", "_session", "_transaction", "_using_batches", "_version", "_models"}

\* The fields a call left with another value than it found.
Changed(c, r) ==
    {f \in ClientFields :
        CASE f = "_driver" -> c.driver # r.driver
          [] f = "_session" -> c.session # r.session
          [] f = "_transaction" -> c.transaction # r.transaction
          [] f = "_using_batches" -> c.using_batches # r.using_batches
          [] f = "_version" -> c.version # r.version
          [] f = "_models" -> c.models # r.models}

\* A batching() block the caller is inside of: the transaction begun on
\* entering it, and whether a call made in its body has raised.
Block(n) == [t |-> "block", txn |-> n, errored |-> FALSE]

\* An exception raised inside the innermost block.
Errored(bs) == IF bs = <<>> THEN bs ELSE [bs EXCEPT ![Len(bs)].errored = TRUE]

\* The call op has taken the client from c to r; bs are the blocks the
\* caller is inside of after it, left the block left by it (None otherwise).
Returns(op, auto, c, r, bs, left) ==
    /\ Len(r.txns) <= MaxTxns
    /\ _driver' = r.driver
    /\ _session' = r.session
    /\ _transaction' = r.transaction
    /\ _using_batches' = r.using_batches
    /\ _version' = r.version
    /\ _models' = r.models
    /\ txns' = r.txns
    /\ blocks' = IF r.exc = "none" THEN bs ELSE Errored(bs)
    /\ lastCall' = [op |-> op, auto |-> auto, raised |-> r.exc, log |-> r.log,
                    ran_on |-> r.ran_on, result |-> r.result, caught |-> r.caught,
                    args |-> r.args, wrapped |-> r.wrapped, init |-> r.init,
                    changed |-> Changed(c, r), initialized |-> c.driver # None,
                    depth |-> Len(blocks), block |-> left]
    /\ UNCHANGED <<raw, context, pc, result, lowerVars, server_version, migrationVars>>

DriverCalls ==
    {"driver.session", "session.begin_transaction", "transaction.run",
     "transaction.commit", "transaction.rollback", "session.close"}

Connect ==
    \E fails \in SUBSET {"driver.verify_connectivity", "driver.get_server_info"} :
        Returns("connect", FALSE, Self,
                connect(Self, fails, server_version), blocks, None)

Close ==
    \E fails \in SUBSET {"driver.close"} :
        Returns("close", FALSE, Self, close(Self, fails), blocks, None)

Connected ==
    \E fails \in SUBSET {"driver.verify_connectivity"} :
        Returns("connected", FALSE, Self, connected(Self, fails), blocks, None)

RegisterModels ==
    Returns("register_models", FALSE, Self, register_models(Self, {"Person"}), blocks, None)

Cypher ==
    \E auto_committing \in BOOLEAN :
        \E fails \in SUBSET (IF auto_committing
                             THEN {"driver.session", "session.run", "own session.close"}
                             ELSE DriverCalls) :
            Returns("cypher", auto_committing, Self,
                    cypher(Self, auto_committing, fails), blocks, None)

DropNodes ==
    \E fails \in SUBSET DriverCalls :
        Returns("drop_nodes", FALSE, Self, GuardedQuery(Self, fails), blocks, None)

RangeIndex ==
    \E fails \in SUBSET DriverCalls :
        Returns("range_index", FALSE, Self, GuardedQuery(Self, fails), blocks, None)

VectorIndex ==
    \E fails \in SUBSET DriverCalls :
        Returns("vector_index", FALSE, Self, vector_index(Self, fails), blocks, None)

\* async with client.batching(): up to the body.
BatchingEnter ==
    /\ Len(blocks) < MaxDepth
    /\ \E fails \in SUBSET DriverCalls :
          LET r == batching_enter(Self, fails)
          IN Returns("batching_enter", FALSE, Self, r,
                     IF r.exc = "none" THEN Append(blocks, Block(r.transaction.v))
                     ELSE blocks,
                     None)

\* The body of the innermost block has ended without exception.
BatchingExit ==
    /\ blocks # <<>>
    /\ \E fails \in SUBSET DriverCalls :
          Returns("batching_exit", FALSE, Self, batching_exit(Self, fails),
                  SubSeq(blocks, 1, Len(blocks) - 1), blocks[Len(blocks)])

\* The body of the innermost block is left by an exception: one it raised
\* itself or let through, or the cancellation of the task.
BatchingRaise ==
    /\ blocks # <<>>
    /\ \E e \in {"BodyError", "CancelledError"} :
          \E fails \in SUBSET DriverCalls :
              Returns("batching_raise", FALSE, Self, batching_raise(Self, fails, e),
                      SubSeq(blocks, 1, Len(blocks) - 1), blocks[Len(blocks)])

ServerVersions == {<<"5", "18", "0">>}

ClientInit ==
    /\ raw = PyDict(EmptyMap)
    /\ context = "node"
    /\ pc = "client"
    /\ result = NoResult
    /\ entityRef = "e"
    /\ NotLowered
    /\ FreshClient
    /\ server_version \in ServerVersions
    /\ NoMigrations

ClientNext ==
    \/ Connect
    \/ Close
    \/ Connected
    \/ RegisterModels
    \/ Cypher
    \/ DropNodes
    \/ RangeIndex
    \/ VectorIndex
    \/ BatchingEnter
    \/ BatchingExit
    \/ BatchingRaise

ClientSpec == ClientInit /\ [][ClientNext]_vars

\* The servers of the version check: every version with these parts.
AgentVersions ==
    {<<major, minor, patch>> :
        major \in {"4", "5", "6"}, minor \in {"0", "17", "18", "19"}, patch \in {"0", "9"}}

VersionInit ==
    /\ raw = PyDict(EmptyMap)
    /\ context = "node"
    /\ pc = "client"
    /\ result = NoResult
    /\ entityRef = "e"
    /\ NotLowered
    /\ FreshClient
    /\ server_version \in AgentVersions
    /\ NoMigrations

VersionNext == Connect \/ VectorIndex \/ Close

VersionSpec == VersionInit /\ [][VersionNext]_vars

\* C16: inside a batching() block every cypher() call that is not
\* auto-committing runs on the transaction begun on entering the block;
\* while no call of the body has raised, that transaction stays open; and
\* when the block is left without an exception the transaction has been
\* committed once and _session, _transaction and _using_batches are back to
\* None, None and False.
C16_BatchSharesOneTransaction ==
    /\ (/\ lastCall.op = "cypher"
        /\ ~lastCall.auto
        /\ lastCall.depth > 0
        /\ lastCall.ran_on # None)
           => lastCall.ran_on = Transaction(blocks[lastCall.depth].txn)
    /\ \A i \in DOMAIN blocks :
           (i = Len(blocks) /\ ~blocks[i].errored) =>
               /\ txns[blocks[i].txn] = "open"
               /\ _transaction = Transaction(blocks[i].txn)
    /\ (lastCall.op = "batching_exit" /\ lastCall.raised = "none") =>
           /\ txns[lastCall.block.txn] = "committed"
           /\ Len(SelectSeq(lastCall.log, LAMBDA call : call = "transaction.commit")) = 1
           /\ _session = None
           /\ _transaction = None
           /\ ~_using_batches

\* A call op raised ClientNotInitializedError before its body: no driver
\* call was made and r holds every client field as c held it.
Refused(c, r) ==
    /\ r.exc = "ClientNotInitializedError"
    /\ r.log = <<>>
    /\ Changed(c, r) = {}

\* C17: an operation guarded by ensure_initialized (close, cypher,
\* drop_nodes, the index creators, the begin, commit and rollback of a
\* transaction) that is called while _driver is None raises
\* ClientNotInitializedError, makes no driver call and leaves _driver,
\* _session, _transaction, _using_batches and _models as they were.
C17_GuardedOperationsNeedDriver ==
    /\ (/\ lastCall.op \in {"close", "cypher", "drop_nodes", "range_index", "vector_index"}
        /\ ~lastCall.initialized)
           => /\ lastCall.raised = "ClientNotInitializedError"
              /\ lastCall.log = <<>>
              /\ lastCall.changed = {}
    /\ _driver = None =>
           \A fails \in SUBSET DriverCalls :
               /\ Refused(Self, _begin_transaction(Self, fails))
               /\ Refused(Self, _commit_transaction(Self, fails))
               /\ Refused(Self, _rollback_transaction(Self, fails))

\* A cypher() call is refused although a batch transaction is still held:
\* the client was closed inside a batching() block.
C17_Witness ==
    /\ lastCall.op = "cypher"
    /\ ~lastCall.initialized
    /\ lastCall.raised = "ClientNotInitializedError"
    /\ _driver = None
    /\ _transaction # None
    /\ _using_batches

\* C18: cypher() with auto_committing = True runs its query on a session
\* of its own: it calls nothing on the client's session or transaction,
\* leaves _session and _transaction (and every other field) as they were,
\* and inside a batching() block the batch transaction stays as it was,
\* neither committed nor rolled back by the call.
C18_AutoCommittingOwnSession ==
    (lastCall.op = "cypher" /\ lastCall.auto /\ lastCall.initialized) =>
        /\ lastCall.ran_on \in {None, OwnSession}
        /\ lastCall.raised = "none" => lastCall.ran_on = OwnSession
        /\ \A i \in DOMAIN lastCall.log :
               lastCall.log[i] \in {"driver.session", "session.run", "own session.close"}
        /\ lastCall.changed = {}
        /\ (lastCall.depth > 0 /\ ~blocks[lastCall.depth].errored) =>
               /\ txns[blocks[lastCall.depth].txn] = "open"
               /\ _transaction = Transaction(blocks[lastCall.depth].txn)

\* An auto-committing query has run inside a batching() block whose
\* transaction is open.
C18_Witness ==
    /\ lastCall.op = "cypher"
    /\ lastCall.auto
    /\ lastCall.raised = "none"
    /\ lastCall.ran_on = OwnSession
    /\ lastCall.depth > 0
    /\ _transaction # None
    /\ txns[_transaction.v] = "open"

SemverAtLeast(version, M, m, p) ==
    LET major == SemverInt[version.v[1]]
        minor == SemverInt[version.v[2]]
        patch == SemverInt[version.v[3]]
    IN \/ major > M
       \/ major = M /\ minor > m
       \/ major = M /\ minor = m /\ patch >= p

\* C20: vector_index, called on a client that holds a driver and the
\* version of the server, gets past ensure_neo4j_version(5, 18, 0) exactly
\* when the version is at least 5.18.0 in semantic-version order, and raises
\* UnsupportedDatabaseVersionError without a driver call otherwise.
C20_MinimumVersionEnforced ==
    (lastCall.op = "vector_index" /\ lastCall.initialized /\ _version # None) =>
        IF SemverAtLeast(_version, 5, 18, 0)
        THEN lastCall.raised # "UnsupportedDatabaseVersionError"
        ELSE lastCall.raised = "UnsupportedDatabaseVersionError" /\ lastCall.log = <<>>

\* The transactions the driver holds open for the client.
OpenTransactions == {n \in DOMAIN txns : txns[n] = "open"}

\* _begin_transaction, called in the present state, is refused with
\* TransactionInProgress: no driver call, every field as it was.
BeginRefused ==
    \A fails \in SUBSET DriverCalls :
        LET r == _begin_transaction(Self, fails)
        IN /\ r.exc = "TransactionInProgress"
           /\ r.log = <<>>
           /\ Changed(Self, r) = {}
           /\ r.txns = txns

\* C24: starting a transaction while the client holds a session or a
\* transaction raises TransactionInProgress and leaves _session and
\* _transaction as they were; at no time is more than one transaction of
\* the client open.
C24_OneTransactionAtATime ==
    /\ (_session # None \/ _transaction # None) => BeginRefused
    /\ Cardinality(OpenTransactions) <= 1

\* C24, amended: the same on a client that holds a driver; on a client
\* without one (closed while it held a session) the start is refused with
\* ClientNotInitializedError, the fields again as they were.
C24_OneTransactionAtATime_Initialized ==
    /\ (_driver # None /\ (_session # None \/ _transaction # None)) => BeginRefused
    /\ (_driver = None) =>
           \A fails \in SUBSET DriverCalls : Refused(Self, _begin_transaction(Self, fails))
    /\ Cardinality(OpenTransactions) <= 1

\* A cypher() call has been refused with TransactionInProgress while the
\* client holds a session and an open transaction.
C24_Witness ==
    /\ lastCall.op = "cypher"
    /\ ~lastCall.auto
    /\ lastCall.raised = "TransactionInProgress"
    /\ lastCall.changed = {}
    /\ _driver # None
    /\ _session # None
    /\ _transaction # None
    /\ OpenTransactions # {}

\* r is what a commit or rollback called in the present state, with no
\* session or no transaction, leaves: NoTransactionInProgress, no driver
\* call, nothing changed.
NothingInProgress(r) ==
    /\ r.exc = "NoTransactionInProgress"
    /\ r.log = <<>>
    /\ Changed(Self, r) = {}
    /\ r.txns = txns

\* r is what a commit or rollback called in the present state, with a
\* session and a transaction, leaves when it returns: the transaction
\* ended first, the session closed second, both fields None.
Ended(r, call, status) ==
    r.exc = "none" =>
        /\ r.log = <<call, "session.close">>
        /\ r.txns[_transaction.v] = status
        /\ r.transaction = None
        /\ r.session = None

\* _commit_transaction and _rollback_transaction called in the present state.
EndsAsClaimed ==
    \A fails \in SUBSET DriverCalls :
        LET committed == _commit_transaction(Self, fails)
            rolled_back == _rollback_transaction(Self, fails)
        IN IF _session = None \/ _transaction = None
           THEN NothingInProgress(committed) /\ NothingInProgress(rolled_back)
           ELSE /\ Ended(committed, "transaction.commit", "committed")
                /\ Ended(rolled_back, "transaction.rollback", "rolled_back")

\* C25: a commit or rollback with _session or _transaction None raises
\* NoTransactionInProgress and changes nothing; with both set it ends the
\* transaction, then closes the session, and on return both are None.
C25_CommitRollbackContract == EndsAsClaimed

\* C25, amended: the same on a client that holds a driver.
C25_CommitRollbackContract_Initialized == _driver # None => EndsAsClaimed

\* A batching() block has been left by a commit that ended the transaction
\* and closed the session.
C25_Witness ==
    /\ lastCall.op = "batching_exit"
    /\ lastCall.raised = "none"
    /\ lastCall.initialized
    /\ lastCall.log = <<"transaction.commit", "session.close">>
    /\ txns[lastCall.block.txn] = "committed"
    /\ _session = None
    /\ _transaction = None

\* C28: when a batching() block is left by an exception raised in its body,
\* the cancellation of the task included, the batch transaction is rolled
\* back, the exception reaches the caller, and afterwards _using_batches is
\* False and _session and _transaction are None.
C28_BatchRolledBackOnException ==
    lastCall.op = "batching_raise" =>
        /\ txns[lastCall.block.txn] = "rolled_back"
        /\ lastCall.raised # "none"
        /\ ~_using_batches
        /\ _session = None
        /\ _transaction = None

\* C29: after a cypher() call that is neither batched nor auto-committing,
\* made on a client that holds a driver and no session or transaction,
\* _session and _transaction are None whether the call returned or raised.
C29_ImplicitTransactionCleansUp ==
    (/\ lastCall.op = "cypher"
     /\ ~lastCall.auto
     /\ lastCall.depth = 0
     /\ lastCall.initialized
     /\ lastCall.raised # "TransactionInProgress")
        => _session = None /\ _transaction = None

\* C27: in core/client.py, when register_models(M) returns on a client that
\* holds a driver, _initialize_models has been invoked with M already in
\* _models; and when connect() returns successfully on a client that held
\* no driver, _initialize_models has been invoked at least once.
C27_InitializedAfterOperation ==
    /\ (/\ lastCall.op = "register_models"
        /\ lastCall.initialized
        /\ lastCall.raised = "none")
           => \E i \in DOMAIN lastCall.init : lastCall.args \subseteq lastCall.init[i]
    /\ (/\ lastCall.op = "connect"
        /\ ~lastCall.initialized
        /\ lastCall.raised = "none")
           => lastCall.init # <<>>

(***************************************************************************)
(* clients/base.py.  Its operations are those of core/client.py line by    *)
(* line, but for initialize_models_after, which awaits the wrapped function*)
(* first and initializes the models when connected() then holds.           *)
(***************************************************************************)

\* Mutant: the models initialized whatever the wrapped function and
\* connected() gave.
base_initialize_models_after_unconditional(r, unreachable) ==
    LET k == connected(Wrapped(r),
                       IF unreachable THEN {"driver.verify_connectivity"} ELSE {})
    IN [[Called(k, "_initialize_models") EXCEPT !.init = Append(@, k.models)]
           EXCEPT !.result = r.result]

\* initialize_models_after of clients/base.py: what its wrapper does once
\* the wrapped function has ended as r; unreachable is verify_connectivity
\* raising inside connected().
base_initialize_models_after(r, unreachable) ==
    IF r.exc # "none" THEN Wrapped(r)
    ELSE LET k == connected(Wrapped(r),
                            IF unreachable THEN {"driver.verify_connectivity"} ELSE {})
         IN IF k.result = PyBool(TRUE)
            THEN [_initialize_models(k) EXCEPT !.result = r.result]
            ELSE [k EXCEPT !.result = r.result]

\* connect of clients/base.py
base_connect(c, fails, agent_version, unreachable) ==
    base_initialize_models_after(wrapped_connect(c, fails, agent_version), unreachable)

\* register_models of clients/base.py
base_register_models(c, models, unreachable) ==
    base_initialize_models_after(wrapped_register_models(c, models), unreachable)

\* The body of register_models_directory: the files of the directory are
\* imported in the order of os.walk, the models of each added to _models;
\* a file that cannot be imported ("broken") raises ImportError.
RECURSIVE wrapped_register_models_directory(_, _)
wrapped_register_models_directory(c, files) ==
    IF files = <<>> THEN c
    ELSE IF Head(files) = "broken" THEN Raise(c, "ImportError")
    ELSE wrapped_register_models_directory(
             [c EXCEPT !.models = @ \cup {Head(files)}, !.args = @ \cup {Head(files)}],
             Tail(files))

\* register_models_directory of clients/base.py
base_register_models_directory(c, files, unreachable) ==
    base_initialize_models_after(wrapped_register_models_directory(c, files), unreachable)

\* The directories given to register_models_directory.
Directories == {<<>>, <<"Person">>, <<"Person", "broken">>, <<"broken", "Knows">>}

BaseConnect ==
    \E fails \in SUBSET {"driver.verify_connectivity", "driver.get_server_info"} :
        \E unreachable \in BOOLEAN :
            Returns("connect", FALSE, Self,
                    base_connect(Self, fails, server_version, unreachable), blocks, None)

BaseRegisterModels ==
    \E models \in {{"Person"}, {"Knows"}} :
        \E unreachable \in BOOLEAN :
            Returns("register_models", FALSE, Self,
                    base_register_models(Self, models, unreachable), blocks, None)

BaseRegisterModelsDirectory ==
    \E files \in Directories :
        \E unreachable \in BOOLEAN :
            Returns("register_models_directory", FALSE, Self,
                    base_register_models_directory(Self, files, unreachable), blocks, None)

BaseInit == ClientInit

BaseNext ==
    \/ BaseConnect
    \/ BaseRegisterModels
    \/ BaseRegisterModelsDirectory
    \/ Close
    \/ Cypher

BaseSpec == BaseInit /\ [][BaseNext]_vars

\* connected() held when the wrapper of initialize_models_after asked: the
\* client holds a driver and verify_connectivity did not raise.
ThenConnected == _driver # None /\ lastCall.caught = "none"

\* C26: in clients/base.py, for connect, register_models and
\* register_models_directory, _initialize_models is invoked at most once,
\* and once exactly when the wrapped function returned without raising and
\* connected() then held; the invocation comes after everything the
\* wrapped function did and finds the models as the function left them.
C26_InitializedOnceAfterOperation ==
    lastCall.op \in {"connect", "register_models", "register_models_directory"} =>
        /\ lastCall.wrapped \in {"returned", "raised"}
        /\ Len(lastCall.init) <= 1
        /\ Len(lastCall.init) = 1 <=> (lastCall.wrapped = "returned" /\ ThenConnected)
        /\ Len(SelectSeq(lastCall.log, LAMBDA call : call = "_initialize_models"))
               = Len(lastCall.init)
        /\ Len(lastCall.init) = 1 =>
               /\ lastCall.log[Len(lastCall.log)] = "_initialize_models"
               /\ lastCall.init[1] = _models
               /\ lastCall.args \subseteq lastCall.init[1]
               /\ lastCall.raised = "none"

\* register_models has returned on a connected client and the models were
\* initialized with the model it registered.
C26_Witness ==
    /\ lastCall.op = "register_models"
    /\ lastCall.initialized
    /\ lastCall.wrapped = "returned"
    /\ lastCall.args # {}
    /\ Len(lastCall.init) = 1
    /\ lastCall.args \subseteq lastCall.init[1]

(***************************************************************************)
(* migrations/cli.py: parse_migration_count.  A text is the sequence of    *)
(* its characters.                                                         *)
(***************************************************************************)

MaxArgLen == 3    \* characters of an argument

Characters == {"0", "1", "2", "a", "l", "-", "+", " ", "_"}

DigitValue == "0" :> 0 @@ "1" :> 1 @@ "2" :> 2

IsDigit(ch) == ch \in DOMAIN DigitValue

\* str.strip() of the whitespace int() ignores.
RECURSIVE lstrip(_)
lstrip(text) ==
    IF text # <<>> /\ Head(text) = " " THEN lstrip(Tail(text)) ELSE text

RECURSIVE rstrip(_)
rstrip(text) ==
    IF text # <<>> /\ text[Len(text)] = " "
    THEN rstrip(SubSeq(text, 1, Len(text) - 1))
    ELSE text

\* The digits int() accepts after the sign: digits, single underscores
\* between them.
IsDecimalLiteral(text) ==
    /\ text # <<>>
    /\ IsDigit(text[1])
    /\ IsDigit(text[Len(text)])
    /\ \A i \in DOMAIN text : IsDigit(text[i]) \/ text[i] = "_"
    /\ \A i \in 1..(Len(text) - 1) : ~(text[i] = "_" /\ text[i + 1] = "_")

RECURSIVE DecimalValue(_)
DecimalValue(text) ==
    IF text = <<>> THEN 0
    ELSE LET last_ch == text[Len(text)]
             front == SubSeq(text, 1, Len(text) - 1)
         IN IF last_ch = "_" THEN DecimalValue(front)
            ELSE 10 * DecimalValue(front) + DigitValue[last_ch]

\* int(arg) of a text: the integer, or ValueError.
int(text) ==
    LET stripped == rstrip(lstrip(text))
        signed == stripped # <<>> /\ stripped[1] \in {"+", "-"}
        literal == IF signed THEN Tail(stripped) ELSE stripped
    IN IF ~IsDecimalLiteral(literal) THEN [t |-> "raise", v |-> "ValueError"]
       ELSE IF signed /\ stripped[1] = "-" THEN PyInt(0 - DecimalValue(literal))
       ELSE PyInt(DecimalValue(literal))

\* Mutant: the count not compared with 1.
parse_migration_count_anyInteger(text) ==
    IF text = <<"a", "l", "l">> THEN [t |-> "str", v |-> text]
    ELSE LET count == int(text)
         IN IF count.t = "raise" THEN [t |-> "raise", v |-> "ArgumentTypeError"]
            ELSE count

\* parse_migration_count: what the try block gives, then its except clause.
parse_migration_count(text) ==
    IF text = <<"a", "l", "l">> THEN [t |-> "str", v |-> text]
    ELSE LET count == int(text)
             tried == IF count.t = "raise" THEN count
                      ELSE IF count.v < 1 THEN [t |-> "raise", v |-> "ValueError"]
                      ELSE count
         IN IF tried.t = "raise" /\ tried.v = "ValueError"
            THEN [t |-> "raise", v |-> "ArgumentTypeError"]
            ELSE tried

\* The arguments argparse can hand over.
Arguments == UNION {[1..n -> Characters] : n \in 0..MaxArgLen}

CountInit ==
    /\ raw = PyDict(EmptyMap)
    /\ context = "node"
    /\ pc = "cli"
    /\ result = NoResult
    /\ entityRef = "e"
    /\ NotLowered
    /\ FreshClient
    /\ NoServer
    /\ arg \in Arguments
    /\ parsed = None
    /\ config = "none"
    /\ listdir = <<>>
    /\ stamp = 0
    /\ created = NoCreate

\* argparse applies type=parse_migration_count to the argument.
ParseMigrationCount ==
    /\ pc = "cli"
    /\ parsed = None
    /\ parsed' = parse_migration_count(arg)
    /\ UNCHANGED <<raw, context, pc, result, lowerVars, clientVars,
                   arg, config, listdir, stamp, created>>

CountNext == ParseMigrationCount

CountSpec == CountInit /\ [][CountNext]_vars

DigitCharacter == <<"1", "2", "3", "4", "5", "6", "7", "8", "9">>

\* str(n) of an integer n >= 0.
RECURSIVE Decimal(_)
Decimal(n) ==
    LET unit == IF n % 10 = 0 THEN "0" ELSE DigitCharacter[n % 10]
    IN IF n < 10 THEN <<unit>> ELSE Append(Decimal(n \div 10), unit)

\* A text without the characters that do not change the integer it is
\* read as: blanks, a plus sign, underscores and leading zeros.
RECURSIVE WithoutZeros(_)
WithoutZeros(text) ==
    IF Len(text) > 1 /\ Head(text) = "0" THEN WithoutZeros(Tail(text)) ELSE text

Canonical(text) ==
    WithoutZeros(SelectSeq(text, LAMBDA ch : ch \notin {" ", "+", "_"}))

\* A text written as str() writes a positive integer.
IsPositiveDecimal(text) ==
    /\ text # <<>>
    /\ \A i \in DOMAIN text : IsDigit(text[i])
    /\ text[1] # "0"

\* A text that is not a number: a letter in it, or no digit at all.
IsNonNumeric(text) == \E i \in DOMAIN text : text[i] \in {"a", "l"}

\* A text that reads as zero or as a negative integer.
IsZeroOrNegative(text) ==
    \/ text # <<>> /\ \A i \in DOMAIN text : text[i] = "0"
    \/ Len(text) > 1 /\ text[1] = "-" /\ \A i \in 2..Len(text) : IsDigit(text[i])

\* C21: parse_migration_count returns "all" exactly for the argument "all";
\* returns n for an argument that reads as an integer n >= 1; and raises
\* ArgumentTypeError, never ValueError, for every other text, "0", the
\* negative integers and the texts that are not numbers among them.
C21_MigrationCountParsed ==
    parsed # None =>
        /\ parsed.t \in {"str", "int", "raise"}
        /\ parsed.t = "str" <=> arg = <<"a", "l", "l">>
        /\ parsed.t = "str" => parsed.v = arg
        /\ parsed.t = "int" => (parsed.v >= 1 /\ Decimal(parsed.v) = Canonical(arg))
        /\ IsPositiveDecimal(arg) => (parsed.t = "int" /\ Decimal(parsed.v) = arg)
        /\ parsed.t = "raise" => parsed.v = "ArgumentTypeError"
        /\ (arg # <<"a", "l", "l">> /\ IsNonNumeric(arg)) => parsed.t = "raise"
        /\ IsZeroOrNegative(arg) => parsed.t = "raise"

\* "0" has been refused.
C21_Witness ==
    /\ arg = <<"0">>
    /\ parsed = [t |-> "raise", v |-> "ArgumentTypeError"]

(***************************************************************************)
(* migrations: create(name, config_path), as tests/migrations/actions/     *)
(* test_create.py uses it.  The migration directory is a mapping from file *)
(* names to file contents.                                                 *)
(***************************************************************************)

MaxCreates == 3    \* migration files created in one run

LowerCase ==
    "T" :> "t" @@ "M" :> "m"

IsUpper(ch) == ch \in DOMAIN LowerCase
IsLower(ch) == ch \in {"t", "e", "s", "m", "i", "g", "r", "a", "o", "n"}

\* normalize_filename (test_normalizes_filename): a word that starts with a
\* capital inside the name is set off by "_", "-" becomes "_", all in lower
\* case.
RECURSIVE normalize_filename(_)
normalize_filename(name) ==
    IF name = <<>> THEN <<>>
    ELSE LET front == SubSeq(name, 1, Len(name) - 1)
             ch == name[Len(name)]
         IN IF IsUpper(ch)
            THEN IF front # <<>> /\ IsLower(front[Len(front)])
                 THEN normalize_filename(front) \o <<"_", LowerCase[ch]>>
                 ELSE Append(normalize_filename(front), LowerCase[ch])
            ELSE IF ch = "-" THEN Append(normalize_filename(front), "_")
            ELSE Append(normalize_filename(front), ch)

\* What tells the files of two create() calls apart, written before the
\* name.
StampText == <<"0001-", "0002-", "0003-", "0004-", "0005-">>

\* The file name of the migration number n created for name.
MigrationFile(n, name) == <<StampText[n]>> \o normalize_filename(name) \o <<".py">>

\* MIGRATION_TEMPLATE.format(name=file)
MigrationTemplate(file) == <<"template up to {name}">> \o file \o <<"template after {name}">>

\* The migration directory named by the config: DEFAULT_MIGRATION_DIR or
\* CUSTOM_MIGRATION_DIR.
MigrationDir(config_path) ==
    IF config_path = "default" THEN "migrations" ELSE "custom_migrations"

\* The directory after "init": one file, not a migration.
InitializedDir == <<".gitkeep">> :> <<>>

\* open(path, "w").write(content)
WriteFile(dir, file, content) ==
    [f \in DOMAIN dir \cup {file} |-> IF f = file THEN content ELSE dir[f]]

\* Mutant: the migration file named by the name alone.
create_unstamped(name, config_path, found, dir, n) ==
    IF found # config_path
    THEN [raised |-> "MigrationNotInitializedError", returned |-> <<>>, dir |-> dir]
    ELSE LET file == normalize_filename(name) \o <<".py">>
         IN [raised |-> "none",
             returned |-> [name |-> file, path |-> <<MigrationDir(config_path)>> \o file],
             dir |-> WriteFile(dir, file, MigrationTemplate(file))]

\* Mutant: the file written before the config is looked for.
create_writesFirst(name, config_path, found, dir, n) ==
    LET file == MigrationFile(n, name)
    IN IF found # config_path
       THEN [raised |-> "MigrationNotInitializedError", returned |-> <<>>,
             dir |-> WriteFile(dir, file, MigrationTemplate(file))]
       ELSE [raised |-> "none",
             returned |-> [name |-> file, path |-> <<MigrationDir(config_path)>> \o file],
             dir |-> WriteFile(dir, file, MigrationTemplate(file))]

\* create(name, config_path): found is the config the project has, dir the
\* migration directory, n the number of the migration.
create(name, config_path, found, dir, n) ==
    IF found # config_path
    THEN [raised |-> "MigrationNotInitializedError", returned |-> <<>>, dir |-> dir]
    ELSE LET file == MigrationFile(n, name)
         IN [raised |-> "none",
             returned |-> [name |-> file, path |-> <<MigrationDir(config_path)>> \o file],
             dir |-> WriteFile(dir, file, MigrationTemplate(file))]

\* The names of the tests: testmigration, TestMigration, testMigration,
\* test_migration, test-migration.
MigrationNames ==
    {<<"t", "e", "s", "t", "m", "i", "g", "r", "a", "t", "i", "o", "n">>,
     <<"T", "e", "s", "t", "M", "i", "g", "r", "a", "t", "i", "o", "n">>,
     <<"t", "e", "s", "t", "M", "i", "g", "r", "a", "t", "i", "o", "n">>,
     <<"t", "e", "s", "t", "_", "m", "i", "g", "r", "a", "t", "i", "o", "n">>,
     <<"t", "e", "s", "t", "-", "m", "i", "g", "r", "a", "t", "i", "o", "n">>}

\* tmp_cwd, initialized_migration, initialized_migration_with_custom_path
MigrationInit ==
    /\ raw = PyDict(EmptyMap)
    /\ context = "node"
    /\ pc = "migrations"
    /\ result = NoResult
    /\ entityRef = "e"
    /\ NotLowered
    /\ FreshClient
    /\ NoServer
    /\ arg = <<>>
    /\ parsed = None
    /\ config \in {"none", "default", "custom"}
    /\ listdir = IF config = "none" THEN <<>> ELSE InitializedDir
    /\ stamp = 0
    /\ created = NoCreate

Create ==
    /\ pc = "migrations"
    /\ stamp < MaxCreates
    /\ \E name \in MigrationNames, config_path \in {"default", "custom"} :
          LET r == create(name, config_path, config, listdir, stamp + 1)
          IN /\ listdir' = r.dir
             /\ stamp' = stamp + 1
             /\ created' = [name |-> name, config_path |-> config_path,
                            raised |-> r.raised, returned |-> r.returned,
                            before |-> listdir]
    /\ UNCHANGED <<raw, context, pc, result, lowerVars, clientVars, arg, parsed, config>>

MigrationNext == Create

MigrationSpec == MigrationInit /\ [][MigrationNext]_vars

Contains(text, needle) ==
    \E i \in 0..(Len(text) - Len(needle)) :
        SubSeq(text, i + 1, i + Len(needle)) = needle

\* The last create() has succeeded: one file more in the directory, the
\* others as they were, the new file holding the template formatted with
\* its name, "name" and "path" returned.
CreatedOneFile ==
    /\ DOMAIN created.returned = {"name", "path"}
    /\ created.returned.name \notin DOMAIN created.before
    /\ DOMAIN listdir = DOMAIN created.before \cup {created.returned.name}
    /\ \A f \in DOMAIN created.before : listdir[f] = created.before[f]
    /\ listdir[created.returned.name] = MigrationTemplate(created.returned.name)

====
